---- MODULE Spec2Model ----
(***************************************************************************)
(* kgenealogic: the relational store (schema.py), the ingest operations    *)
(* import_matches / import_triangles (data.py), the negative builder       *)
(* build_negative and the cluster engine get_clusters / recursive_cluster  *)
(* (cluster.py).                                                           *)
(*                                                                         *)
(* Spec runs the ingest calls and build_negative on the store.  SpecFail   *)
(* adds calls that raise part-way, SpecKit runs the ingest calls on files  *)
(* that differ in the names, emails and sexes they give, and SpecCluster   *)
(* runs get_clusters round by round and recursive_cluster on small graphs  *)
(* and seed trees.  SpecRebuild ingests and rebuilds three times over, and *)
(* SpecData runs cluster_data, from the parsed configuration to the frame  *)
(* it returns, on the stores two ingest calls leave.                       *)
(*                                                                         *)
(* Tables are sets of rows.  A segment row is identified by its            *)
(* (chromosome, start, end) triple, which the schema declares unique, and  *)
(* an overlap row by its (source, target1, target2, segment) tuple, which  *)
(* is unique as well; rows of other tables refer to them by that key.      *)
(* A NULL watermark is written Null (0): batch numbers start at 1 and      *)
(* build_negative itself tests the watermarks by truthiness.               *)
(***************************************************************************)
EXTENDS Integers, FiniteSets, Sequences, TLC

\* ---------------------------------------------------------------- bounds
\* the number of ingest calls
MaxBatch == 2
Kits == {1, 2, 3}
\* the (kit1, kit2) of the match files and the (kit1, kit2, kit3) of the
\* triangle files that are ingested: kits 1 and 2 export matches, kit 1
\* exports triangles
MatchPairs == { <<1, 2>>, <<1, 3>>, <<2, 1>> }
TriangleTriples == { <<1, 2, 3>> }
\* the segments of the files: on chromosome 1 every interval from a start
\* position to an end position, on chromosome X one interval
StartPositions == {0, 1}
EndPositions == {2, 3}

Null == 0
\* a missing name, email or sex (pandas None / NaN, SQL NULL)
None == "None"

Max2(a, b) == IF a >= b THEN a ELSE b
Min2(a, b) == IF a <= b THEN a ELSE b

\* ---------------------------------------------------------------- inputs
ValidSegments ==
    { [chromosome |-> "1", start |-> a, end |-> b] :
        a \in StartPositions, b \in EndPositions }
    \cup { [chromosome |-> "X", start |-> 0, end |-> 3] }

\* a row of a match file with the name, email and sex it gives for kit2
MatchRowOf(p, g, name, email, sex) ==
    [kit1 |-> p[1], kit2 |-> p[2], chromosome |-> g.chromosome,
     start |-> g.start, end |-> g.end, name |-> name, email |-> email, sex |-> sex]

\* a row of a triangle file with the names and emails it gives for kit2, kit3
TriangleRowOf(p, g, name2, email2, name3, email3) ==
    [kit1 |-> p[1], kit2 |-> p[2], kit3 |-> p[3], chromosome |-> g.chromosome,
     start |-> g.start, end |-> g.end,
     name2 |-> name2, email2 |-> email2, name3 |-> name3, email3 |-> email3]

\* the rows of files that give every kit the same name, email and sex
MatchRow(p, g) == MatchRowOf(p, g, "N", "E", "F")

TriangleRow(p, g) == TriangleRowOf(p, g, "N", "E", "N", "E")

\* the data frames a call may be given: the rows of one file, which is the
\* export of one primary kit with one segment for each kit it lists
MatchInputs ==
    { { MatchRow(p, g) } : p \in MatchPairs, g \in ValidSegments }
    \cup
    { { MatchRow(pp[1], gg[1]), MatchRow(pp[2], gg[2]) } :
        pp \in { q \in MatchPairs \X MatchPairs : q[1][1] = q[2][1] /\ q[1][2] # q[2][2] },
        gg \in ValidSegments \X ValidSegments }

TriangleInputs ==
    { { TriangleRow(p, g) } : p \in TriangleTriples, g \in ValidSegments }

SegmentOf(r) == [chromosome |-> r.chromosome, start |-> r.start, end |-> r.end]

\* ----------------------------------------------------------------- state
VARIABLES
    batch,      \* meta['batch']
    kit,        \* kit table: the kit ids present
    kitattr,    \* kit table: kit -> [name, email, sex]
    segment,    \* segment table: set of (chromosome, start, end)
    source,     \* source table: kit -> [match, triangle, negative]
    match,      \* match table: set of [segment, kit1, kit2, batch]
    triangle,   \* triangle table: set of [segment, kit1, kit2, kit3, batch]
    overlap,    \* overlap table: set of [source, target1, target2, segment]
    negative,   \* negative table: set of [overlap, neg_segment]
    ingested,   \* the data frames given to earlier ingest calls
    last,       \* the most recent call: operation, argument, result
    gc,         \* a get_clusters call: its arguments, locals and result
    rc,         \* a recursive_cluster call: its arguments and result
    cd          \* a cluster_data call: its configuration and result

vars == <<batch, kit, kitattr, segment, source, match, triangle, overlap,
          negative, ingested, last, gc, rc, cd>>

\* the calls of the cluster engine
clustering == <<gc, rc>>

tables == <<batch, kit, kitattr, segment, source, match, triangle, overlap,
            negative>>

\* the record of a call: for build_negative, kit is s_kit, path the branch
\* taken on the watermarks, exit the source line of the return statement
\* and stmts the statements executed against the store
Call(op, k, rows, ret, path, exit, stmts) ==
    [op |-> op, kit |-> k, rows |-> rows, ret |-> ret,
     path |-> path, exit |-> exit, stmts |-> stmts]

NoCall == Call("initialize", 0, {}, TRUE, "none", 0, {})

\* no call of the cluster engine is in progress
NoClustering == [pc |-> "none"]

\* the store after initialize
InitStore ==
    /\ batch = 0
    /\ kit = {}
    /\ kitattr = << >>
    /\ segment = {}
    /\ source = << >>
    /\ match = {}
    /\ triangle = {}
    /\ overlap = {}
    /\ negative = {}
    /\ ingested = {}
    /\ last = NoCall

Init ==
    /\ InitStore
    /\ gc = NoClustering
    /\ rc = NoClustering
    /\ cd = NoClustering

\* ------------------------------------------------- unique ... ON CONFLICT
\* INSERT into a table whose unique key is K(row), conflicts ignored: a new
\* row is dropped when a stored row, or another new row, has its key.
MatchKey(m) == <<m.segment, m.kit1, m.kit2>>
TriangleKey(t) == <<t.segment, t.kit1, t.kit2, t.kit3>>

InsertMatch(tbl, new) ==
    tbl \cup { m \in new : \A o \in tbl : MatchKey(o) # MatchKey(m) }

InsertTriangle(tbl, new) ==
    tbl \cup { t \in new : \A o \in tbl : TriangleKey(o) # TriangleKey(t) }

\* add_sources: insert a source row with NULL watermarks, no-op if present
EmptySource == [match |-> Null, triangle |-> Null, negative |-> Null]

add_sources(src, ks) ==
    [k \in (DOMAIN src) \cup ks |-> IF k \in DOMAIN src THEN src[k] ELSE EmptySource]

\* as_internal_kitid: every kit id of the listed fields is in the kit table
as_internal_kitid(tbl, ks) == tbl \cup ks

\* the row kit.insert().values(kitid=...) stores: name, email, sex are NULL
NoKitData == [name |-> None, email |-> None, sex |-> None]

\* the name/email/sex columns after as_internal_kitid
insert_kit_id(attr, ks) ==
    [k \in (DOMAIN attr) \cup ks |-> IF k \in DOMAIN attr THEN attr[k] ELSE NoKitData]

\* kit_data of import_matches: the (kit2, name, email, sex) of the first row
\* of every kit2; the frames here list every kit2 once
MatchKitData(rows) ==
    { [kit |-> r.kit2, name |-> r.name, email |-> r.email, sex |-> r.sex] : r \in rows }

\* kit_data of import_triangles: the (kit2, name2, email2) and the
\* (kit3, name3, email3) of the rows, dropna(), then sex = None
TriangleKitData(rows) ==
    { [kit |-> d.kit, name |-> d.name, email |-> d.email, sex |-> None] :
        d \in { x \in { [kit |-> r.kit2, name |-> r.name2, email |-> r.email2] : r \in rows }
                       \cup { [kit |-> r.kit3, name |-> r.name3, email |-> r.email3] : r \in rows } :
                 x.name # None /\ x.email # None } }

\* update_kit_data: UPDATE kit SET name, email, sex WHERE id = :kit AND
\* sex IS NULL, for every record of kit_data
update_kit_data(attr, kd) ==
    [k \in DOMAIN attr |->
        IF attr[k].sex = None /\ \E d \in kd : d.kit = k
        THEN LET d == CHOOSE x \in kd : x.kit = k
             IN [name |-> d.name, email |-> d.email, sex |-> d.sex]
        ELSE attr[k]]

\* as_internal_segment: every (chromosome, start, end) of the frame is stored
as_internal_segment(tbl, rows) == tbl \cup { SegmentOf(r) : r \in rows }

\* an increment that skips a number
increment_batch_ByTwo(b) == b + 2

\* increment_batch: the value read from meta, plus one, stored and returned
increment_batch(b) == b + 1

\* ------------------------------------------------------- import_matches
\* a frame that lacks the swapped copy
MatchFrame_OneWay(rows, b) ==
    { [segment |-> SegmentOf(r), kit1 |-> r.kit1, kit2 |-> r.kit2, batch |-> b] : r \in rows }

\* the frame after concat with its kit1/kit2-swapped copy
MatchFrame(rows, b) ==
    { [segment |-> SegmentOf(r), kit1 |-> r.kit1, kit2 |-> r.kit2, batch |-> b] : r \in rows }
    \cup
    { [segment |-> SegmentOf(r), kit1 |-> r.kit2, kit2 |-> r.kit1, batch |-> b] : r \in rows }

\* update_sources: every source row whose kit is kit1 of a stored match row
\* of this batch gets match = batch
UpdateSourcesMatch(src, tbl, b) ==
    [k \in DOMAIN src |->
        IF \E m \in tbl : m.batch = b /\ m.kit1 = k
        THEN [src[k] EXCEPT !.match = b] ELSE src[k]]

\* a call import_matches(engine, data)
import_matches_call(rows) ==
    /\ LET b    == increment_batch(batch)
           src1 == add_sources(source, { r.kit1 : r \in rows })
           tbl  == InsertMatch(match, MatchFrame(rows, b))
           ids  == { r.kit1 : r \in rows } \cup { r.kit2 : r \in rows }
       IN /\ kit' = as_internal_kitid(kit, ids)
          /\ kitattr' = update_kit_data(insert_kit_id(kitattr, ids), MatchKitData(rows))
          /\ segment' = as_internal_segment(segment, rows)
          /\ batch' = b
          /\ match' = tbl
          /\ source' = UpdateSourcesMatch(src1, tbl, b)
    /\ ingested' = ingested \cup { [op |-> "import_matches", rows |-> rows] }
    /\ last' = Call("import_matches", 0, rows, TRUE, "none", 0, {})
    /\ UNCHANGED <<triangle, overlap, negative, clustering, cd>>

\* the call, in a run of at most MaxBatch ingest calls
import_matches(rows) ==
    /\ batch < MaxBatch
    /\ import_matches_call(rows)

\* ----------------------------------------------------- import_triangles
\* a frame whose last rename repeats the one before it
TriangleFrame_FivePerms(rows, b) ==
    UNION { { [segment |-> SegmentOf(r), kit1 |-> r.kit1, kit2 |-> r.kit2, kit3 |-> r.kit3, batch |-> b],
              [segment |-> SegmentOf(r), kit1 |-> r.kit2, kit2 |-> r.kit1, kit3 |-> r.kit3, batch |-> b],
              [segment |-> SegmentOf(r), kit1 |-> r.kit3, kit2 |-> r.kit2, kit3 |-> r.kit1, batch |-> b],
              [segment |-> SegmentOf(r), kit1 |-> r.kit1, kit2 |-> r.kit3, kit3 |-> r.kit2, batch |-> b],
              [segment |-> SegmentOf(r), kit1 |-> r.kit3, kit2 |-> r.kit1, kit3 |-> r.kit2, batch |-> b] }
            : r \in rows }

\* the frame after concat with its five renamed copies
TriangleFrame(rows, b) ==
    UNION { { [segment |-> SegmentOf(r), kit1 |-> r.kit1, kit2 |-> r.kit2, kit3 |-> r.kit3, batch |-> b],
              [segment |-> SegmentOf(r), kit1 |-> r.kit2, kit2 |-> r.kit1, kit3 |-> r.kit3, batch |-> b],
              [segment |-> SegmentOf(r), kit1 |-> r.kit3, kit2 |-> r.kit2, kit3 |-> r.kit1, batch |-> b],
              [segment |-> SegmentOf(r), kit1 |-> r.kit1, kit2 |-> r.kit3, kit3 |-> r.kit2, batch |-> b],
              [segment |-> SegmentOf(r), kit1 |-> r.kit3, kit2 |-> r.kit1, kit3 |-> r.kit2, batch |-> b],
              [segment |-> SegmentOf(r), kit1 |-> r.kit2, kit2 |-> r.kit3, kit3 |-> r.kit1, batch |-> b] }
            : r \in rows }

\* an update copied from import_matches that sets the match watermark
UpdateSourcesTriangle_MatchColumn(src, tbl, b) ==
    [k \in DOMAIN src |->
        IF \E t \in tbl : t.batch = b /\ t.kit1 = k
        THEN [src[k] EXCEPT !.match = b] ELSE src[k]]

\* update_sources: every source row whose kit is kit1 of a stored triangle
\* row of this batch gets triangle = batch
UpdateSourcesTriangle(src, tbl, b) ==
    [k \in DOMAIN src |->
        IF \E t \in tbl : t.batch = b /\ t.kit1 = k
        THEN [src[k] EXCEPT !.triangle = b] ELSE src[k]]

\* a call import_triangles(engine, data)
import_triangles_call(rows) ==
    /\ LET b    == increment_batch(batch)
           src1 == add_sources(source, { r.kit1 : r \in rows })
           tbl  == InsertTriangle(triangle, TriangleFrame(rows, b))
           ids  == UNION { {r.kit1, r.kit2, r.kit3} : r \in rows }
       IN /\ kit' = as_internal_kitid(kit, ids)
          /\ kitattr' = update_kit_data(insert_kit_id(kitattr, ids), TriangleKitData(rows))
          /\ segment' = as_internal_segment(segment, rows)
          /\ batch' = b
          /\ triangle' = tbl
          /\ source' = UpdateSourcesTriangle(src1, tbl, b)
    /\ ingested' = ingested \cup { [op |-> "import_triangles", rows |-> rows] }
    /\ last' = Call("import_triangles", 0, rows, TRUE, "none", 0, {})
    /\ UNCHANGED <<match, overlap, negative, clustering, cd>>

\* the call, in a run of at most MaxBatch ingest calls
import_triangles(rows) ==
    /\ batch < MaxBatch
    /\ import_triangles_call(rows)

\* ------------------------------------------------------- build_negative
\* a status test that forgets the triangle watermark
BuildPath_NoTriangleTest(s) ==
    IF s \notin DOMAIN source \/ source[s].match = Null
    THEN "missing"
    ELSE IF source[s].negative >= Max2(source[s].match, source[s].triangle)
         THEN "uptodate"
         ELSE "rebuild"

\* the three cases on the source row's watermarks (cluster.py 339-348)
BuildPath(s) ==
    IF s \notin DOMAIN source \/ source[s].match = Null \/ source[s].triangle = Null
    THEN "missing"
    ELSE IF source[s].negative >= Max2(source[s].match, source[s].triangle)
         THEN "uptodate"
         ELSE "rebuild"

\* a watermark taken past the data it covers
RebuildBatch_Sum(st) == st.match + st.triangle

\* batch = max(status['match'], status['triangle'])
RebuildBatch(st) == Max2(st.match, st.triangle)

\* valid_neg_targets: the kit2 of the triangle rows with kit1 = s
valid_neg_targets(s) == { t.kit2 : t \in { x \in triangle : x.kit1 = s } }

\* a join that takes every match of s, whatever its target
valid_matches_AnyTarget(s) ==
    { [target |-> m.kit2, chromosome |-> m.segment.chromosome,
       start |-> m.segment.start, end |-> m.segment.end] :
        m \in { x \in match : x.kit1 = s } }

\* valid_matches: the match rows (s, target) joined with their segment
valid_matches(s) ==
    { [target |-> m.kit2, chromosome |-> m.segment.chromosome,
       start |-> m.segment.start, end |-> m.segment.end] :
        m \in { x \in match : x.kit1 = s /\ x.kit2 \in valid_neg_targets(s) } }

\* a self-join that lacks the chromosome condition
select_overlap_AnyChromosome(s) ==
    LET vm == valid_matches(s)
    IN { [target1 |-> p[1].target, target2 |-> p[2].target,
          chromosome |-> p[1].chromosome,
          start |-> Max2(p[1].start, p[2].start),
          end |-> Min2(p[1].end, p[2].end)] :
            p \in { q \in vm \X vm :
                      /\ q[1].target # q[2].target
                      /\ q[1].start < q[2].end
                      /\ q[2].start < q[1].end } }

\* select_overlap: self-join of valid_matches on the chromosome
select_overlap(s) ==
    LET vm == valid_matches(s)
    IN { [target1 |-> p[1].target, target2 |-> p[2].target,
          chromosome |-> p[1].chromosome,
          start |-> Max2(p[1].start, p[2].start),
          end |-> Min2(p[1].end, p[2].end)] :
            p \in { q \in vm \X vm :
                      /\ q[1].chromosome = q[2].chromosome
                      /\ q[1].target # q[2].target
                      /\ q[1].start < q[2].end
                      /\ q[2].start < q[1].end } }

\* the overlap rows built from the frame (cluster.py 397-400)
OverlapFrame(s, frame) ==
    { [source |-> s, target1 |-> r.target1, target2 |-> r.target2,
       segment |-> SegmentOf(r)] : r \in frame }

\* A statement executed on a connection that is closed without commit() is
\* rolled back: the store keeps the rows it had before.
CloseWithoutCommit(before, inside) == before

\* sql.delete(overlap).where(source == s), negative rows cascade
DeleteOverlap(tbl, s) == { o \in tbl : o.source # s }
CascadeNegative(tbl, ov) == { n \in tbl : n.overlap \in ov }

\* the NULL segment of an outer join
NoSegment == [chromosome |-> "", start |-> -1, end |-> -1]

\* select_neg_overlap: overlap LEFT JOIN triangle on the three kits LEFT JOIN
\* segment, filtered by the WHERE clause
select_neg_overlap(ov, s) ==
    LET joined ==
            UNION { LET tris == { t \in triangle : /\ t.kit1 = o.source
                                                   /\ t.kit2 = o.target1
                                                   /\ t.kit3 = o.target2 }
                    IN IF tris = {}
                       THEN { [overlap |-> o, tri |-> NoSegment] }
                       ELSE { [overlap |-> o, tri |-> t.segment] : t \in tris }
                  : o \in ov }
    IN { j \in joined :
           /\ \/ j.tri = NoSegment
              \/ /\ j.tri.chromosome = j.overlap.segment.chromosome
                 /\ j.tri.start <= j.overlap.segment.end
                 /\ j.tri.end >= j.overlap.segment.start
           /\ j.overlap.source = s }

\* neg_base: the rows without a triangle keep the whole overlap interval
neg_base(negov) ==
    { [overlap |-> j.overlap, segment |-> j.overlap.segment] :
        j \in { x \in negov : x.tri = NoSegment } }

\* the orders sort_values('tri_start') can give: ascending in start, rows of
\* equal start in any order
RECURSIVE SortedOrders(_)
SortedOrders(P) ==
    IF P = {} THEN { << >> }
    ELSE UNION { { <<p>> \o q : q \in SortedOrders(P \ {p}) } :
                   p \in { x \in P : \A y \in P : x.start <= y.start } }

\* the cursor after a positive interval: start = int(row.tri_end)
Advance(start, tri_end) == tri_end

\* the loop of cluster.py 449-460 over the sorted positives of one overlap
RECURSIVE Walk(_, _, _, _)
Walk(q, chrom, start, end) ==
    IF q = << >>
    THEN IF end > start
         THEN { [chromosome |-> chrom, start |-> start, end |-> end] }
         ELSE {}
    ELSE (IF Head(q).start > start
          THEN { [chromosome |-> chrom, start |-> start, end |-> Head(q).start] }
          ELSE {})
         \cup Walk(Tail(q), chrom, Advance(start, Head(q).end), end)

\* the possible neg_remain rows of one overlap group
WalkOutcomes(negov, o) ==
    LET P == { j.tri : j \in { x \in negov : x.overlap = o /\ x.tri # NoSegment } }
    IN { { [overlap |-> o, segment |-> g] :
             g \in Walk(q, o.segment.chromosome, o.segment.start, o.segment.end) } :
           q \in SortedOrders(P) }

\* the possible neg_remain frames over all groups
RECURSIVE NegRemainOutcomes(_, _)
NegRemainOutcomes(negov, groups) ==
    IF groups = {} THEN { {} }
    ELSE LET o == CHOOSE x \in groups : TRUE
         IN { a \cup b : a \in WalkOutcomes(negov, o),
                         b \in NegRemainOutcomes(negov, groups \ {o}) }

\* the possible neg_tri frames (cluster.py 437-461)
NegTriOutcomes(negov) ==
    { neg_base(negov) \cup rem :
        rem \in NegRemainOutcomes(negov,
                  { j.overlap : j \in { x \in negov : x.tri # NoSegment } }) }

NegativeFrame(negtri) ==
    { [overlap |-> r.overlap, neg_segment |-> r.segment] : r \in negtri }

\* the call leaves the record cd to its caller: cluster_data, which calls it
\* through get_negative, or the run that calls it on its own
build_negative(s) ==
    LET path == BuildPath(s)
    IN
    IF path = "missing" THEN
        /\ last' = Call("build_negative", s, {}, FALSE, path, 342, {})
        /\ UNCHANGED <<tables, ingested, clustering>>
    ELSE IF path = "uptodate" THEN
        /\ last' = Call("build_negative", s, {}, TRUE, path, 348, {})
        /\ UNCHANGED <<tables, ingested, clustering>>
    ELSE
        LET b      == RebuildBatch(source[s])
            frame  == select_overlap(s)
            ov0    == CloseWithoutCommit(overlap, DeleteOverlap(overlap, s))
            neg0   == CloseWithoutCommit(negative,
                          CascadeNegative(negative, DeleteOverlap(overlap, s)))
            seg1   == as_internal_segment(segment, frame)
            ov1    == ov0 \cup OverlapFrame(s, frame)
            negov  == select_neg_overlap(ov1, s)
        IN
        IF frame = {} THEN
            /\ overlap' = ov0
            /\ negative' = neg0
            /\ last' = Call("build_negative", s, {}, TRUE, path, 396, {"delete_overlap"})
            /\ UNCHANGED <<batch, kit, kitattr, segment, source, match, triangle, ingested, clustering>>
        ELSE IF negov = {} THEN
            /\ overlap' = ov1
            /\ negative' = neg0
            /\ segment' = seg1
            /\ last' = Call("build_negative", s, {}, TRUE, path, 436,
                            {"delete_overlap", "insert_segment", "insert_overlap"})
            /\ UNCHANGED <<batch, kit, kitattr, source, match, triangle, ingested, clustering>>
        ELSE
            \E negtri \in NegTriOutcomes(negov) :
                IF negtri = {} THEN
                    /\ overlap' = ov1
                    /\ negative' = neg0
                    /\ segment' = seg1
                    /\ last' = Call("build_negative", s, {}, TRUE, path, 465,
                                    {"delete_overlap", "insert_segment", "insert_overlap"})
                    /\ UNCHANGED <<batch, kit, kitattr, source, match, triangle, ingested, clustering>>
                ELSE
                    /\ overlap' = ov1
                    /\ segment' = seg1 \cup { r.segment : r \in negtri }
                    /\ negative' = neg0 \cup NegativeFrame(negtri)
                    /\ source' = [source EXCEPT ![s].negative = b]
                    /\ last' = Call("build_negative", s, {}, TRUE, path, 471,
                                    {"delete_overlap", "insert_segment", "insert_overlap",
                                     "insert_negative", "update_source"})
                    /\ UNCHANGED <<batch, kit, kitattr, match, triangle, ingested, clustering>>

Next ==
    \/ \E rows \in MatchInputs : import_matches(rows)
    \/ \E rows \in TriangleInputs : import_triangles(rows)
    \/ \E s \in Kits : build_negative(s) /\ UNCHANGED cd

Spec == Init /\ [][Next]_vars

\* -------------------------------------------------------------- failures
\* A call that raises: the statement `at` fails, so the transactions the
\* call committed before it stay in the store and the rest is not executed.
\* Every helper opens its own connection and commits it (data.py 20, 27,
\* 92, 113, 135), so each helper that returned has committed.
StatementsBefore(seq, at) ==
    { seq[i] : i \in 1 .. ((CHOOSE j \in DOMAIN seq : seq[j] = at) - 1) }

\* the statements of import_matches and import_triangles, in order
IngestStatements ==
    << "as_internal_kitid", "update_kit_data", "add_sources", "as_internal_segment",
       "set_segment_lengths", "increment_batch", "insert" >>

\* the source line of each of them in import_matches / import_triangles
MatchLine(at) ==
    CASE at = "as_internal_kitid" -> 146 [] at = "update_kit_data" -> 155
      [] at = "add_sources" -> 158 [] at = "as_internal_segment" -> 160
      [] at = "set_segment_lengths" -> 160 [] at = "increment_batch" -> 162
      [] OTHER -> 180

TriangleLine(at) ==
    CASE at = "as_internal_kitid" -> 192 [] at = "update_kit_data" -> 207
      [] at = "add_sources" -> 210 [] at = "as_internal_segment" -> 212
      [] at = "set_segment_lengths" -> 212 [] at = "increment_batch" -> 214
      [] OTHER -> 237

\* the store after the committed statements `done` of an ingest call
IngestCommitted(done, rows, ids, kd) ==
    /\ kit' = IF "as_internal_kitid" \in done THEN as_internal_kitid(kit, ids) ELSE kit
    /\ kitattr' = IF "update_kit_data" \in done
                  THEN update_kit_data(insert_kit_id(kitattr, ids), kd)
                  ELSE IF "as_internal_kitid" \in done
                       THEN insert_kit_id(kitattr, ids) ELSE kitattr
    /\ source' = IF "add_sources" \in done
                 THEN add_sources(source, { r.kit1 : r \in rows }) ELSE source
    /\ segment' = IF "as_internal_segment" \in done
                  THEN as_internal_segment(segment, rows) ELSE segment
    /\ batch' = IF "increment_batch" \in done THEN increment_batch(batch) ELSE batch

import_matches_raises(rows, at) ==
    /\ batch < MaxBatch
    /\ LET done == StatementsBefore(IngestStatements, at)
       IN /\ IngestCommitted(done, rows,
                             { r.kit1 : r \in rows } \cup { r.kit2 : r \in rows },
                             MatchKitData(rows))
          /\ last' = Call("import_matches", 0, rows, FALSE, "raised", MatchLine(at), done)
    /\ UNCHANGED <<match, triangle, overlap, negative, ingested, clustering, cd>>

import_triangles_raises(rows, at) ==
    /\ batch < MaxBatch
    /\ LET done == StatementsBefore(IngestStatements, at)
       IN /\ IngestCommitted(done, rows,
                             UNION { {r.kit1, r.kit2, r.kit3} : r \in rows },
                             TriangleKitData(rows))
          /\ last' = Call("import_triangles", 0, rows, FALSE, "raised", TriangleLine(at), done)
    /\ UNCHANGED <<match, triangle, overlap, negative, ingested, clustering, cd>>

\* the statements of a rebuild that touch the store, in order
BuildStatements ==
    << "select_overlap", "insert_segment", "insert_overlap", "select_neg_overlap",
       "insert_neg_segment", "insert_negative", "update_source" >>

BuildLine(at) ==
    CASE at = "select_overlap" -> 394 [] at = "insert_segment" -> 397
      [] at = "insert_overlap" -> 402 [] at = "select_neg_overlap" -> 433
      [] at = "insert_neg_segment" -> 462 [] at = "insert_negative" -> 467
      [] OTHER -> 468

\* build_negative(s) raising at statement `at` of a rebuild: the overlap
\* delete is rolled back with its connection, the segment insert (inside
\* as_internal_segment) and the overlap insert are committed on their own
build_negative_raises(s, at) ==
    /\ BuildPath(s) = "rebuild"
    /\ LET done   == StatementsBefore(BuildStatements, at)
           frame  == select_overlap(s)
           seg1   == as_internal_segment(segment, frame)
           ov1    == overlap \cup OverlapFrame(s, frame)
           negov  == select_neg_overlap(ov1, s)
       IN /\ (at # "select_overlap") => frame # {}
          /\ ("select_neg_overlap" \in done) => negov # {}
          /\ \E negtri \in NegTriOutcomes(negov) :
                /\ ("insert_neg_segment" \in done) => negtri # {}
                /\ segment' = IF "insert_neg_segment" \in done
                              THEN seg1 \cup { r.segment : r \in negtri }
                              ELSE IF "insert_segment" \in done THEN seg1 ELSE segment
          /\ overlap' = IF "insert_overlap" \in done THEN ov1 ELSE overlap
          /\ last' = Call("build_negative", s, {}, FALSE, "raised", BuildLine(at),
                          {"delete_overlap"} \cup done)
    /\ UNCHANGED <<batch, kit, kitattr, source, match, triangle, negative, ingested, clustering, cd>>

\* the files of the runs with failures: kit 1's matches with kits 2 and 3 on
\* chromosome 1 and its triangle with them
FailMatchInputs ==
    { { MatchRow(<<1, 2>>, [chromosome |-> "1", start |-> 0, end |-> b2]),
        MatchRow(<<1, 3>>, [chromosome |-> "1", start |-> 0, end |-> b3]) } :
        b2 \in EndPositions, b3 \in EndPositions }

FailTriangleInputs ==
    { { TriangleRow(<<1, 2, 3>>, [chromosome |-> "1", start |-> a, end |-> 2]) } :
        a \in StartPositions }

NextFail ==
    \/ \E rows \in FailMatchInputs : import_matches(rows)
    \/ \E rows \in FailTriangleInputs : import_triangles(rows)
    \/ \E s \in Kits : build_negative(s) /\ UNCHANGED cd
    \/ \E rows \in FailMatchInputs, i \in DOMAIN IngestStatements :
          import_matches_raises(rows, IngestStatements[i])
    \/ \E rows \in FailTriangleInputs, i \in DOMAIN IngestStatements :
          import_triangles_raises(rows, IngestStatements[i])
    \/ \E s \in Kits, i \in DOMAIN BuildStatements :
          build_negative_raises(s, BuildStatements[i])

SpecFail == Init /\ [][NextFail]_vars

\* -------------------------------------------------- kit names and emails
\* the files of the runs on kit attributes: kit 1's match with kit 2 and its
\* triangle with kits 2 and 3 on one segment, with the names, emails and
\* sexes a file may give, missing ones included
KitSegment == [chromosome |-> "1", start |-> 0, end |-> 2]

KitMatchInputs ==
    { { MatchRowOf(<<1, 2>>, KitSegment, n, e, x) } :
        n \in {None, "A", "B"}, e \in {None, "E"}, x \in {None, "F"} }

KitTriangleInputs ==
    { { TriangleRowOf(<<1, 2, 3>>, KitSegment, n, e, "C", "E") } :
        n \in {None, "A", "B"}, e \in {None, "E"} }

NextKit ==
    \/ \E rows \in KitMatchInputs : import_matches(rows)
    \/ \E rows \in KitTriangleInputs : import_triangles(rows)

SpecKit == Init /\ [][NextKit]_vars

\* ------------------------------------------------------ repeated rebuilds
\* the runs in which data arrives after a rebuild: at most MaxIngests ingest
\* calls; kit 1's matches with kits 2 and 3, and in some files with kit 4,
\* which is in no triangle; its triangles with kits 2 and 3, one a call
MaxIngests == 3

RebuildMatchInputs ==
    { { MatchRow(<<1, 2>>, [chromosome |-> "1", start |-> 0, end |-> 3]),
        MatchRow(<<1, 3>>, [chromosome |-> "1", start |-> a, end |-> 3 - a]) } \cup extra :
        a \in StartPositions,
        extra \in { {}, { MatchRow(<<1, 4>>, [chromosome |-> "1", start |-> 0, end |-> 3]) } } }

RebuildTriangleInputs ==
    { { TriangleRow(<<1, 2, 3>>, g) } : g \in ValidSegments }

NextRebuild ==
    \/ \E rows \in RebuildMatchInputs : batch < MaxIngests /\ import_matches_call(rows)
    \/ \E rows \in RebuildTriangleInputs : batch < MaxIngests /\ import_triangles_call(rows)
    \/ \E s \in Kits : build_negative(s) /\ UNCHANGED cd

SpecRebuild == Init /\ [][NextRebuild]_vars

\* ---------------------------------------------------------- get_clusters
\* A graph is a frame of rows (kit1, kit2, weight) with one row for a pair:
\* a function from the pairs <<kit1, kit2>> to the weight.  A seed
\* assignment is a function from the seed kits to "P" or "M".
\* a label that is null
NaN == "NaN"

Abs(x) == IF x < 0 THEN -x ELSE x

\* the sum of the weights of the rows E of graph g
RECURSIVE WeightSum(_, _)
WeightSum(g, E) ==
    IF E = {} THEN 0
    ELSE LET e == CHOOSE x \in E : TRUE
         IN g[e] + WeightSum(g, E \ {e})

\* labels.weight: the sum of abs(weight) over the rows with kit1 = k
TotalWeight(g, k) ==
    WeightSum([e \in DOMAIN g |-> Abs(g[e])], { e \in DOMAIN g : e[1] = k })

\* labels before the loop: a row for every kit1 of total weight > 0, its
\* label taken from the seeds, null for the others
InitialLabels(g, sd) ==
    [k \in { e[1] : e \in { x \in DOMAIN g : TotalWeight(g, x[1]) > 0 } } |->
        IF k \in DOMAIN sd THEN sd[k] ELSE NaN]

\* a cap of three rounds for each vertex
max_rounds_Three(lb) == 3 * Cardinality(DOMAIN lb)

\* max_rounds = max_rounds or 2*len(labels)
max_rounds(lb) == 2 * Cardinality(DOMAIN lb)

\* the rows of kit1 = k whose kit2 has label l (graph['label'] is the label
\* of kit2, null for a kit2 that has no row in labels)
LabelledRows(g, lb, k, l) ==
    { e \in DOMAIN g : e[1] = k /\ e[2] \in DOMAIN lb /\ lb[e[2]] = l }

\* seg_sum has a row for k: groupby drops the rows whose label is null
InSegSum(g, lb, k) ==
    \E e \in DOMAIN g : e[1] = k /\ e[2] \in DOMAIN lb /\ lb[e[2]] # NaN

\* labels.paternal = seg_sum.P - seg_sum.M, for a k that seg_sum has
paternal(g, lb, k) ==
    WeightSum(g, LabelledRows(g, lb, k, "P")) - WeightSum(g, LabelledRows(g, lb, k, "M"))

\* a confidence that is NaN
NoConfidence == [defined |-> FALSE, num |-> 0, den |-> 1]

\* labels.confidence = abs(paternal) / weight as the fraction num / den; NaN
\* for a k that seg_sum lacks
confidence(g, lb, k) ==
    IF InSegSum(g, lb, k)
    THEN [defined |-> TRUE, num |-> Abs(paternal(g, lb, k)), den |-> TotalWeight(g, k)]
    ELSE NoConfidence

\* an availability test that never offers a labelled row again
available_Unlabelled(g, sd, lb, k) ==
    /\ lb[k] = NaN
    /\ confidence(g, lb, k).defined /\ confidence(g, lb, k).num > 0
    /\ k \notin DOMAIN sd

\* an availability test without the fix_seeds conjunct
available_SeedsFree(g, sd, lb, k) ==
    /\ \/ lb[k] = NaN
       \/ lb[k] = "P" /\ InSegSum(g, lb, k) /\ paternal(g, lb, k) < 0
       \/ lb[k] = "M" /\ InSegSum(g, lb, k) /\ paternal(g, lb, k) > 0
    /\ confidence(g, lb, k).defined /\ confidence(g, lb, k).num > 0

\* available (cluster.py 293-300): a comparison with NaN is false
available(g, sd, lb, k) ==
    /\ \/ lb[k] = NaN
       \/ lb[k] = "P" /\ InSegSum(g, lb, k) /\ paternal(g, lb, k) < 0
       \/ lb[k] = "M" /\ InSegSum(g, lb, k) /\ paternal(g, lb, k) > 0
    /\ confidence(g, lb, k).defined /\ confidence(g, lb, k).num > 0
    /\ k \notin DOMAIN sd

Available(g, sd, lb) == { k \in DOMAIN lb : available(g, sd, lb, k) }

\* c1 > c2 as fractions
Greater(c1, c2) == c1.num * c2.den > c2.num * c1.den

\* a choice of the first available row, whatever its confidence
next_kit_First(g, sd, lb) ==
    CHOOSE k \in Available(g, sd, lb) : \A j \in Available(g, sd, lb) : k <= j

\* labels[available].iloc[confidence[available].argmax()]: the first row, in
\* the order of the sorted index, of the largest confidence
next_kit(g, sd, lb) ==
    LET A    == Available(g, sd, lb)
        best == { k \in A : \A j \in A : ~Greater(confidence(g, lb, j), confidence(g, lb, k)) }
    IN CHOOSE k \in best : \A j \in best : k <= j

\* a label taken against the sign of paternal
next_label_Against(g, lb, k) == IF paternal(g, lb, k) > 0 THEN "M" ELSE "P"

next_label(g, lb, k) == IF paternal(g, lb, k) > 0 THEN "P" ELSE "M"

\* the test of the break statement, with i already incremented
Break(g, sd, lb, i) == Available(g, sd, lb) = {} \/ i > max_rounds(lb)

\* labels.loc[next_kit.name, 'label'] = next_label
Relabel(g, sd, lb) ==
    LET k == next_kit(g, sd, lb)
    IN [lb EXCEPT ![k] = next_label(g, lb, k)]

\* a return that leaves out the seeds without a row in labels
ClustersFrame_LabelsOnly(g, sd, lb) ==
    [k \in DOMAIN lb |->
        [label |-> IF lb[k] = NaN THEN "" ELSE lb[k],
         confidence |-> confidence(g, lb, k)]]

\* the frame returned (cluster.py 310-313): the rows of labels with null
\* labels replaced by '', and the seeds that have no row in labels, which
\* have no confidence column
ClustersFrame(g, sd, lb) ==
    [k \in (DOMAIN lb) \cup (DOMAIN sd) |->
        IF k \in DOMAIN lb
        THEN [label |-> IF lb[k] = NaN THEN "" ELSE lb[k],
              confidence |-> confidence(g, lb, k)]
        ELSE [label |-> sd[k], confidence |-> NoConfidence]]

\* the arguments of the calls: the edges between a kit of {1, 2} and a kit
\* of {3, 4} and the edge of 3 and 4, each absent or of weight -1 or 1,
\* both rows of an edge stored; and the same frames with the row (4, 3)
\* replaced by one of weight -2
ClusterEdges == { <<1, 3>>, <<1, 4>>, <<2, 3>>, <<2, 4>>, <<3, 4>> }
EdgeWeights == {-1, 1}

SymmetricGraph(w) ==
    [e \in (DOMAIN w) \cup { <<x[2], x[1]>> : x \in DOMAIN w } |->
        IF e \in DOMAIN w THEN w[e] ELSE w[<<e[2], e[1]>>]]

SymmetricGraphs ==
    UNION { { SymmetricGraph(w) : w \in [E -> EdgeWeights] } : E \in SUBSET ClusterEdges }

\* a symmetric graph on which, with kit 1 as a P seed, the loop assigns a
\* label and changes it in a later round
FlipGraph ==
    SymmetricGraph((<<1, 2>> :> -2) @@ (<<1, 3>> :> -2) @@ (<<1, 4>> :> 1)
                   @@ (<<2, 3>> :> -1) @@ (<<2, 4>> :> 2) @@ (<<3, 4>> :> -2))

ClusterGraphs ==
    SymmetricGraphs
    \cup { [g EXCEPT ![<<4, 3>>] = -2] : g \in { x \in SymmetricGraphs : <<4, 3>> \in DOMAIN x } }
    \cup { FlipGraph }

SeedAssignments ==
    UNION { [S -> {"P", "M"}] : S \in (SUBSET {1, 2}) \ { {} } }

\* get_clusters(graph, seeds) as a process: its arguments, labels, the round
\* counter i and the number of labels it has assigned
InitClusters ==
    /\ InitStore
    /\ rc = NoClustering
    /\ cd = NoClustering
    /\ \E g \in ClusterGraphs, sd \in SeedAssignments :
          gc = [pc |-> "loop", graph |-> g, seeds |-> sd,
                labels |-> InitialLabels(g, sd), i |-> 0, updates |-> 0]

\* a round of the loop that assigns a label
get_clusters_round ==
    /\ gc.pc = "loop"
    /\ ~Break(gc.graph, gc.seeds, gc.labels, gc.i + 1)
    /\ gc' = [gc EXCEPT !.labels = Relabel(gc.graph, gc.seeds, gc.labels),
                        !.i = gc.i + 1,
                        !.updates = gc.updates + 1]
    /\ UNCHANGED <<tables, ingested, last, rc, cd>>

\* the round that breaks, and the return
get_clusters_return ==
    /\ gc.pc = "loop"
    /\ Break(gc.graph, gc.seeds, gc.labels, gc.i + 1)
    /\ gc' = [pc |-> "returned", graph |-> gc.graph, seeds |-> gc.seeds,
              labels |-> gc.labels, i |-> gc.i + 1, updates |-> gc.updates,
              result |-> ClustersFrame(gc.graph, gc.seeds, gc.labels)]
    /\ UNCHANGED <<tables, ingested, last, rc, cd>>

\* the loop run to its break: labels as the return statement finds them
RECURSIVE Relax(_, _, _, _)
Relax(g, sd, lb, i) ==
    IF Break(g, sd, lb, i + 1) THEN lb
    ELSE Relax(g, sd, Relabel(g, sd, lb), i + 1)

\* the frame a call get_clusters(graph, seeds) returns
get_clusters(g, sd) == ClustersFrame(g, sd, Relax(g, sd, InitialLabels(g, sd), 0))

\* ----------------------------------------------------- recursive_cluster
Seed(k, floating, neg) == [kit |-> k, floating |-> floating, negative |-> neg]

SeedTree(a, values, branches) ==
    [ahnentafel |-> a, values |-> values, branches |-> branches]

\* dict.update: the entries of f, replaced and extended by those of h
Update(f, h) ==
    [k \in (DOMAIN f) \cup (DOMAIN h) |-> IF k \in DOMAIN h THEN h[k] ELSE f[k]]

\* flatten: kit -> ahnentafel of the node that declares it; the branches
\* first, in the order build_seed_tree inserts them (M, then P), then the
\* values of the node itself
RECURSIVE flatten(_)
flatten(tree) ==
    LET of(l) == IF l \in DOMAIN tree.branches THEN flatten(tree.branches[l]) ELSE << >>
    IN Update(Update(of("M"), of("P")),
              [k \in { v.kit : v \in tree.values } |-> tree.ahnentafel])

\* frame.add(other, fill_value=0) on the index (kit1, kit2)
AddFrames(g, h) ==
    [e \in (DOMAIN g) \cup (DOMAIN h) |->
        (IF e \in DOMAIN g THEN g[e] ELSE 0) + (IF e \in DOMAIN h THEN h[e] ELSE 0)]

\* tri_graph after the loop over tree.values: source_neg of every seed
\* marked negative added to the graph
RECURSIVE AddNegatives(_, _, _)
AddNegatives(g, ks, source_neg) ==
    IF ks = {} THEN g
    ELSE LET k == CHOOSE x \in ks : TRUE
         IN AddNegatives(AddFrames(g, source_neg[k]), ks \ {k}, source_neg)

\* graph[graph.kit1.isin(kits) & graph.kit2.isin(kits)]
RestrictGraph(g, ks) ==
    [e \in { x \in DOMAIN g : x[1] \in ks /\ x[2] \in ks } |-> g[e]]

\* depth = int(np.log2(tree.ahnentafel))
RECURSIVE Depth(_)
Depth(a) == IF a < 2 THEN 0 ELSE 1 + Depth(a \div 2)

\* flat_seeds: the kits of flatten(branch) with the label of the branch
FlatSeeds(tree) ==
    LET of(l) == IF l \in DOMAIN tree.branches
                 THEN [k \in DOMAIN flatten(tree.branches[l]) |-> l] ELSE << >>
    IN Update(of("M"), of("P"))

\* np.select([label == 'P', label == 'M'], [2*a, 1 + 2*a], a)
AhnentafelOf(label, a) ==
    IF label = "P" THEN 2 * a ELSE IF label = "M" THEN 1 + 2 * a ELSE a

\* a loop that asks for the negative triangles of every seed
negative_seeds_All(tree) == { v.kit : v \in tree.values }

\* the seeds of tree.values for which source_neg is called
negative_seeds(tree) == { v.kit : v \in { x \in tree.values : x.negative } }

\* a loop that pins no seed
nonfloat_Empty(tree) == {}

\* nonfloat: the kits of the seeds of tree.values that do not float
nonfloat(tree) == { v.kit : v \in { x \in tree.values : ~x.floating } }

\* a groupby that drops the rows whose label is ''
groupby_label_Labelled(lb) == { lb[k] : k \in DOMAIN lb } \ {""}

\* result.groupby('label'): the labels that have a group of rows
groupby_label(lb) == { lb[k] : k \in DOMAIN lb }

\* the frame of a call that partitioned (cluster.py 240-258): the rows of
\* every label group, those of the call for the branch where the tree has a
\* branch of that label (subP, subM) and the group's own rows elsewhere,
\* with the label and confidence of the node's depth
result_branches(kits, tree, node, subP, subM) ==
    LET a       == tree.ahnentafel
        here(k) == Depth(a) :> [label |-> node.label[k], confidence |-> node.confidence[k]]
        groups  == groupby_label(node.label)
        recurse == groups \cap DOMAIN tree.branches
        sub(l)  == IF l = "P" THEN subP ELSE subM
    IN [rows |->
           [k \in kits |->
               IF node.label[k] \in recurse
               THEN [ahnentafel |-> sub(node.label[k]).rows[k].ahnentafel,
                     levels |-> Update(sub(node.label[k]).rows[k].levels, here(k))]
               ELSE [ahnentafel |-> AhnentafelOf(node.label[k], a), levels |-> here(k)]],
        calls |-> {node} \cup UNION { sub(l).calls : l \in recurse },
        count |->
           [k \in kits |->
               IF node.label[k] \notin groups THEN 0
               ELSE IF node.label[k] \in DOMAIN tree.branches
                    THEN sub(node.label[k]).count[k] ELSE 1]]

\* recursive_cluster(kits, tree, graph, source_neg).  rows is the frame
\* returned: for every kit its ahnentafel and, at every depth where it was
\* partitioned, its label and confidence columns.  calls lists the node of
\* this call and of the calls below it: the kits it was given, the kits and
\* tri_graph left when its non-floating seeds are removed, the seeds for
\* which it called source_neg, and, where get_clusters was called, the seeds
\* passed and the labels given.  count is the number of rows each kit has in
\* the frame returned, the concatenation of the frames of the label groups.
RECURSIVE recursive_cluster(_, _, _, _)
recursive_cluster(kits, tree, graph, source_neg) ==
    LET a         == tree.ahnentafel
        tri0      == AddNegatives(graph, negative_seeds(tree), source_neg)
        kits1     == kits \ nonfloat(tree)
        graph1    == RestrictGraph(graph, kits1)
        tri1      == RestrictGraph(tri0, kits1)
        partition == DOMAIN tree.branches # {} /\ kits # {} /\ DOMAIN tri1 # {}
        flat      == FlatSeeds(tree)
        clusters  == get_clusters(tri1, flat)
        label(k)  == IF k \in DOMAIN clusters THEN clusters[k].label ELSE ""
        conf(k)   == IF k \in DOMAIN clusters THEN clusters[k].confidence ELSE NoConfidence
        group(l)  == { k \in kits : label(k) = l }
        node      == [ahnentafel |-> a, given |-> kits, kits |-> kits1, graph |-> tri1,
                      negative |-> negative_seeds(tree),
                      partition |-> partition,
                      seeds |-> IF partition THEN flat ELSE << >>,
                      label |-> IF partition THEN [k \in kits |-> label(k)] ELSE << >>,
                      confidence |-> IF partition THEN [k \in kits |-> conf(k)] ELSE << >>]
    IN IF partition
       THEN result_branches(kits, tree, node,
                recursive_cluster(group("P"), tree.branches["P"], graph1, source_neg),
                recursive_cluster(group("M"), tree.branches["M"], graph1, source_neg))
       ELSE [rows |->
                [k \in kits |->
                    [ahnentafel |-> IF k \in DOMAIN flatten(tree) THEN flatten(tree)[k] ELSE a,
                     levels |-> << >>]],
             calls |-> {node},
             count |-> [k \in kits |-> 1]]

\* the arguments of the calls: kits 1 to 4; the graphs of weight 1 whose
\* edge of kits 3 and 4 may weigh 2;
\* a tree whose root may declare kit 4, whose P child declares kit 1 and may
\* have a P child of its own that declares kit 3, and whose M child, if
\* present, declares kit 2; the negative triangles of kit 4 weigh against
\* the edge of kits 1 and 3
ClusterKits == {1, 2, 3, 4}

TreeGraphs ==
    UNION { { SymmetricGraph(w) :
                w \in { x \in [E -> {1, 2}] : \A e \in E : x[e] = 2 => e = <<3, 4>> } } :
            E \in SUBSET ClusterEdges }

RootValues ==
    { {}, { Seed(4, TRUE, FALSE) }, { Seed(4, FALSE, FALSE) }, { Seed(4, FALSE, TRUE) } }

GrandChildren ==
    { << >> } \cup { "P" :> SeedTree(4, { Seed(3, f, FALSE) }, << >>) : f \in BOOLEAN }

PaternalTrees ==
    { SeedTree(2, { Seed(1, f, FALSE) }, b) : f \in BOOLEAN, b \in GrandChildren }

MaternalTrees ==
    { SeedTree(3, { Seed(2, f, FALSE) }, << >>) : f \in BOOLEAN }

SeedTrees ==
    { SeedTree(1, v, "P" :> p) : v \in RootValues, p \in PaternalTrees }
    \cup { SeedTree(1, v, ("P" :> p) @@ ("M" :> m)) :
             v \in RootValues, p \in PaternalTrees, m \in MaternalTrees }

SourceNeg ==
    [k \in ClusterKits |-> IF k = 4 THEN SymmetricGraph(<<1, 3>> :> -1) ELSE << >>]

InitTree ==
    /\ InitStore
    /\ gc = NoClustering
    /\ cd = NoClustering
    /\ \E g \in TreeGraphs, t \in SeedTrees :
          rc = [pc |-> "call", kits |-> ClusterKits, tree |-> t, graph |-> g]

recursive_cluster_call ==
    /\ rc.pc = "call"
    /\ LET r == recursive_cluster(rc.kits, rc.tree, rc.graph, SourceNeg)
       IN rc' = [pc |-> "returned", kits |-> rc.kits, tree |-> rc.tree, graph |-> rc.graph,
                 rows |-> r.rows, calls |-> r.calls, count |-> r.count]
    /\ UNCHANGED <<tables, ingested, last, gc, cd>>

NextCluster ==
    \/ get_clusters_round
    \/ get_clusters_return
    \/ recursive_cluster_call

SpecCluster == (InitClusters \/ InitTree) /\ [][NextCluster]_vars

\* ---------------------------------------------------------- cluster_data
\* Lengths are in hundredths of a centimorgan.  A weight of the graph is a
\* multiple of 1 / PAIRWISE_FACTOR.den of that unit, so that
\* PAIRWISE_FACTOR * (sum of match lengths) + (sum of triangle lengths) is an
\* integer: num * matches + den * triangles.
PAIRWISE_FACTOR == [num |-> 1, den |-> 4]

\* the genetic map, chromosome -> position -> cM.  It lists every position
\* of the files, so set_segment_lengths finds start1 = start2 = start and
\* end1 = end2 = end, the interpolation terms divide by zero and coalesce to
\* 0, and a segment's length is cm(end) - cm(start)
genetmap ==
    ("1" :> (0 :> 0 @@ 1 :> 700 @@ 2 :> 1399 @@ 3 :> 2099)) @@ ("X" :> (0 :> 0 @@ 3 :> 700))

Length(g) == genetmap[g.chromosome][g.end] - genetmap[g.chromosome][g.start]

\* the kitid column: the external id of the kit with internal id k
kitid == (1 :> "A1") @@ (2 :> "A2") @@ (3 :> "1")

\* an id that no kit has
UnknownId == "Z9"

\* kits.loc[kitid]: the internal id of an external id
KitLoc(x) == CHOOSE k \in kit : kitid[k] = x

\* The value SQLite compares with an INTEGER column when it is given the
\* text x: the column's affinity turns a text that is a numeral into that
\* number, and any other text equals no integer.
Numeral(x) == IF x = "1" THEN 1 ELSE Null

\* a threshold that is None
NoLength == -1

\* ---- the parsed YAML file
RawSeed(id, autox, float, neg) == [id |-> id, autox |-> autox, float |-> float, negative |-> neg]

\* a node of the tree: its kits and its 'maternal' / 'paternal' keys
RawTree(kits, branches) == [kits |-> kits, branches |-> branches]

\* the number of times id is listed as a seed in the tree
RECURSIVE SeedCount(_, _)
SeedCount(raw, id) ==
    LET of(b) == IF b \in DOMAIN raw.branches THEN SeedCount(raw.branches[b], id) ELSE 0
    IN Cardinality({ k \in raw.kits : k.id = id }) + of("maternal") + of("paternal")

\* a reader that accepts a seed listed twice
read_cluster_config_NoDuplicateTest(parsed) ==
    LET unique_seeds == { x \in { kitid[k] : k \in Kits } \cup {UnknownId} :
                            SeedCount(parsed.tree, x) > 0 }
    IN IF unique_seeds \cap parsed.exclude # {}
       THEN [code |-> 1, line |-> 188]
       ELSE [code |-> 0, line |-> 197, include |-> parsed.include, exclude |-> parsed.exclude,
             min_length |-> parsed.min_length, tree |-> parsed.tree, seeds |-> unique_seeds]

\* read_cluster_config: typer.Exit(code=1) for a duplicated seed and for an
\* excluded seed, the ClusterConfig otherwise
read_cluster_config(parsed) ==
    LET unique_seeds == { x \in { kitid[k] : k \in Kits } \cup {UnknownId} :
                            SeedCount(parsed.tree, x) > 0 }
    IN IF \E x \in unique_seeds : SeedCount(parsed.tree, x) > 1
       THEN [code |-> 1, line |-> 180]
       ELSE IF unique_seeds \cap parsed.exclude # {}
       THEN [code |-> 1, line |-> 188]
       ELSE [code |-> 0, line |-> 197, include |-> parsed.include, exclude |-> parsed.exclude,
             min_length |-> parsed.min_length, tree |-> parsed.tree, seeds |-> unique_seeds]

\* ---- the queries of cluster_data
\* include: the listed kits and their neighbours by matches and triangles
\* longer than the thresholds given
include_set(config) ==
    UNION { {KitLoc(i.id)}
            \cup (IF i.matches # NoLength
                  THEN { m.kit2 : m \in { x \in match : /\ x.kit1 = KitLoc(i.id)
                                                        /\ Length(x.segment) > i.matches } }
                  ELSE {})
            \cup (IF i.triangles # NoLength
                  THEN { t.kit2 : t \in { x \in triangle : /\ x.kit1 = KitLoc(i.id)
                                                           /\ Length(x.segment) > i.triangles } }
                  ELSE {})
          : i \in config.include }

\* a query that leaves out the segments of length min_length
graph_query_Longer(min_length) ==
    LET rows == { m \in match : Length(m.segment) > min_length /\ m.kit1 # m.kit2 }
    IN [e \in { <<m.kit1, m.kit2>> : m \in rows } |->
          WeightSum([m \in rows |-> Length(m.segment)],
                    { m \in rows : <<m.kit1, m.kit2>> = e })]

\* graph_query: the sum of the lengths of the match segments of (kit1, kit2)
\* that are at least min_length long
graph_query(min_length) ==
    LET rows == { m \in match : Length(m.segment) >= min_length /\ m.kit1 # m.kit2 }
    IN [e \in { <<m.kit1, m.kit2>> : m \in rows } |->
          WeightSum([m \in rows |-> Length(m.segment)],
                    { m \in rows : <<m.kit1, m.kit2>> = e })]

\* triangle_query: the same sum over the triangle rows of (kit1, kit2) whose
\* kit3, an internal id, is not in config.exclude, a list of external ids
triangle_query(min_length, exclude) ==
    LET rows == { t \in triangle : /\ Length(t.segment) >= min_length
                                   /\ t.kit1 # t.kit2
                                   /\ \A x \in exclude : Numeral(x) # t.kit3 }
    IN [e \in { <<t.kit1, t.kit2>> : t \in rows } |->
          WeightSum([t \in rows |-> Length(t.segment)],
                    { t \in rows : <<t.kit1, t.kit2>> = e })]

\* graph: PAIRWISE_FACTOR * graph + tri_graph with fill_value = 0
base_graph(config) ==
    LET g == graph_query(config.min_length)
        t == triangle_query(config.min_length, config.exclude)
    IN AddFrames([e \in DOMAIN g |-> PAIRWISE_FACTOR.num * g[e]],
                 [e \in DOMAIN t |-> PAIRWISE_FACTOR.den * t[e]])

\* trisource: the kits whose source row has a triangle watermark
trisource == { k \in DOMAIN source : source[k].triangle # Null }

\* a query that takes the matches on every chromosome
autox_query_AnyChromosome(seed, min_length) ==
    { m.kit2 : m \in { x \in match : /\ Length(x.segment) >= min_length
                                     /\ x.kit1 = seed } }

\* autox_query: the kits that match the seed on chromosome X
autox_query(seed, min_length) ==
    { m.kit2 : m \in { x \in match : /\ x.segment.chromosome = "X"
                                     /\ Length(x.segment) >= min_length
                                     /\ x.kit1 = seed } }

\* build_seed_tree(raw, ahnentafel) with the set `seeds` it reads and
\* updates: the tree built and the seeds after it
RECURSIVE build_seed_tree(_, _, _, _, _)
build_seed_tree(raw, a, seeds, exclude, min_length) ==
    LET values == { Seed(KitLoc(k.id),
                         IF k.float = None THEN KitLoc(k.id) \notin trisource
                                           ELSE k.float = "True",
                         k.negative) : k \in raw.kits }
        autox  == UNION { autox_query(KitLoc(k.id), min_length) :
                            k \in { x \in raw.kits : x.autox } }
                  \ (exclude \cup seeds)
        hasM   == "maternal" \in DOMAIN raw.branches
        hasP   == "paternal" \in DOMAIN raw.branches
        m      == IF hasM
                  THEN build_seed_tree(raw.branches["maternal"], 1 + 2 * a,
                                       seeds \cup autox, exclude, min_length)
                  ELSE [tree |-> SeedTree(1 + 2 * a, {}, << >>), seeds |-> seeds \cup autox]
        p      == IF hasP
                  THEN build_seed_tree(raw.branches["paternal"], 2 * a,
                                       m.seeds, exclude, min_length)
                  ELSE [tree |-> SeedTree(2 * a, {}, << >>), seeds |-> m.seeds]
        mtree  == [m.tree EXCEPT !.values = @ \cup { Seed(x, TRUE, FALSE) : x \in autox }]
        branches == (IF hasM \/ autox # {} THEN "M" :> mtree ELSE << >>)
                    @@ (IF hasP THEN "P" :> p.tree ELSE << >>)
    IN [tree |-> SeedTree(a, values, branches), seeds |-> p.seeds]

\* get_negative after its build_negative call: minus the sum of the lengths
\* of the negative segments of (target1, target2) that are at least
\* min_length long, read from the negative table neg
get_negative(neg, s_kit, min_length) ==
    LET rows == { n \in neg : /\ n.overlap.source = s_kit
                              /\ Length(n.neg_segment) >= min_length }
    IN [e \in { <<n.overlap.target1, n.overlap.target2>> : n \in rows } |->
          0 - PAIRWISE_FACTOR.den
              * WeightSum([n \in rows |-> Length(n.neg_segment)],
                          { n \in rows : <<n.overlap.target1, n.overlap.target2>> = e })]

\* the record of a call that returned: the kits, graph and tree given to
\* recursive_cluster, the frame returned with the seed column and the
\* external ids, and the seeds for which get_negative was called
ClusterResult(parsed, kits, graph, tree, r) ==
    [pc |-> "returned", code |-> 0, config |-> parsed, kits |-> kits, graph |-> graph,
     tree |-> tree, calls |-> r.calls,
     built |-> UNION { c.negative : c \in r.calls },
     rows |-> [x \in { kitid[k] : k \in DOMAIN r.rows } |->
                 LET k == KitLoc(x)
                 IN [ahnentafel |-> r.rows[k].ahnentafel,
                     seed |-> IF k \in DOMAIN flatten(tree) THEN flatten(tree)[k] ELSE Null,
                     levels |-> r.rows[k].levels]]]

\* the call of recursive_cluster and the frame returned (cluster.py 177-189):
\* get_negative builds the negative triangles of the seeds in `called`, the
\* negative seeds of the nodes the recursion visits, before it reads them
cluster_data_return(parsed, config, kits, graph, tree, called) ==
    /\ IF called = {}
       THEN UNCHANGED <<tables, ingested, last, clustering>>
       ELSE build_negative(CHOOSE x \in called : TRUE)
    /\ cd' = ClusterResult(parsed, kits, graph, tree,
                recursive_cluster(kits, tree, graph,
                    [k \in kit |->
                       IF k \in called
                       THEN get_negative(negative', k, config.min_length)
                       ELSE << >>]))

\* the population, the base graph and the seed tree (cluster.py 62-175)
cluster_data_graph(parsed, config, seeds, exclude, graph, tree) ==
    cluster_data_return(parsed, config,
        (IF config.include # {}
         THEN kit \cap (include_set(config) \cup seeds)
         ELSE kit) \ exclude,
        graph, tree,
        UNION { c.negative :
                  c \in recursive_cluster(
                          (IF config.include # {}
                           THEN kit \cap (include_set(config) \cup seeds)
                           ELSE kit) \ exclude,
                          tree, graph, [k \in kit |-> << >>]).calls })

\* the checks of the kit ids (cluster.py 52-60, 62-83)
cluster_data_config(parsed, config) ==
    IF config.code # 0
    THEN /\ cd' = [pc |-> "exit", code |-> config.code, line |-> config.line,
                   config |-> parsed]
         /\ UNCHANGED <<tables, ingested, last, clustering>>
    ELSE IF ~(config.seeds \cup config.exclude \subseteq { kitid[k] : k \in kit })
    THEN /\ cd' = [pc |-> "exit", code |-> 1, line |-> 58, config |-> parsed]
         /\ UNCHANGED <<tables, ingested, last, clustering>>
    ELSE IF ~({ i.id : i \in config.include } \subseteq { kitid[k] : k \in kit })
    THEN /\ cd' = [pc |-> "exit", code |-> 1, line |-> 81, config |-> parsed]
         /\ UNCHANGED <<tables, ingested, last, clustering>>
    ELSE cluster_data_graph(parsed, config,
             { KitLoc(x) : x \in config.seeds },
             { KitLoc(x) : x \in config.exclude },
             base_graph(config),
             build_seed_tree(config.tree, 1,
                             { KitLoc(x) : x \in config.seeds },
                             { KitLoc(x) : x \in config.exclude },
                             config.min_length).tree)

\* cluster_data(engine, config) on the file `parsed`, read by
\* read_cluster_config.  The calls get_negative makes to build_negative are
\* part of it; the configurations mark at most one seed negative.
cluster_data(parsed) ==
    /\ cd.pc = "none"
    /\ cluster_data_config(parsed, read_cluster_config(parsed))

\* ---- the files and configurations of the runs
\* kit 1's matches with kit 2 and kit 3 on chromosome 1, with or without
\* matches on chromosome X, kit 2's match with kit 1, and kit 1's triangle
\* with kits 2 and 3
DataMatchInputs ==
    { { MatchRow(<<2, 1>>, [chromosome |-> "1", start |-> 0, end |-> 2]) } } \cup
    { { MatchRow(<<1, 2>>, [chromosome |-> "1", start |-> 0, end |-> 2]),
        MatchRow(<<1, 3>>, [chromosome |-> "1", start |-> a, end |-> 2]) }
      \cup { MatchRow(<<1, k>>, [chromosome |-> "X", start |-> 0, end |-> 3]) : k \in xs } :
        a \in StartPositions, xs \in { {}, {2, 3} } }

DataTriangleInputs ==
    { { TriangleRow(<<1, 2, 3>>, [chromosome |-> "1", start |-> a, end |-> 2]) } :
        a \in StartPositions }

\* min_length: the default 7.0 and a threshold just above it
MinLengths == {700, 701}

\* the root lists no kit or kit 1; the paternal node, if any, lists kit 2 or
\* kit 1 again; the maternal node, if any, lists kit 3 or an unknown id
RootKits ==
    { {} } \cup
    { { RawSeed(kitid[1], f[1], f[2], f[3]) } :
        f \in { <<FALSE, None, FALSE>>, <<TRUE, None, FALSE>>,
                <<FALSE, "False", TRUE>>, <<TRUE, "True", TRUE>> } }

RawBranches ==
    { p @@ m :
        p \in { << >>, "paternal" :> RawTree({ RawSeed(kitid[2], FALSE, None, FALSE) }, << >>) },
        m \in { << >>, "maternal" :> RawTree({ RawSeed(kitid[3], FALSE, None, FALSE) }, << >>) } }
    \cup
    { "paternal" :> RawTree({ RawSeed(kitid[1], FALSE, None, FALSE) }, << >>),
      "maternal" :> RawTree({ RawSeed(UnknownId, FALSE, None, FALSE) }, << >>) }

ClusterConfigs ==
    { [min_length |-> l, exclude |-> x, include |-> {}, tree |-> RawTree(k, b)] :
        l \in MinLengths, x \in { {}, { kitid[3] }, { UnknownId } },
        k \in RootKits, b \in RawBranches }
    \cup
    { [min_length |-> 700, exclude |-> {},
       include |-> { [id |-> x, matches |-> n[1], triangles |-> n[2]] },
       tree |-> RawTree(k, << >>)] :
        x \in { kitid[2], UnknownId },
        n \in { <<NoLength, NoLength>>, <<700, NoLength>>, <<1399, NoLength>>,
                <<NoLength, 700>>, <<NoLength, 1399>> },
        k \in RootKits }

NextData ==
    \/ \E rows \in DataMatchInputs : cd.pc = "none" /\ import_matches(rows)
    \/ \E rows \in DataTriangleInputs : cd.pc = "none" /\ import_triangles(rows)
    \/ cd.pc = "none" /\ \E parsed \in ClusterConfigs : cluster_data(parsed)

SpecData == Init /\ [][NextData]_vars

\* ================================================================ claims
Swapped(r) == [r EXCEPT !.kit1 = r.kit2, !.kit2 = r.kit1]

\* C1: every match row (segment, a, b, B) has its symmetric row
\* (segment, b, a, B) with the same batch number in the match table.
C1_MatchSymmetric ==
    \A m \in match :
        [segment |-> m.segment, kit1 |-> m.kit2, kit2 |-> m.kit1, batch |-> m.batch] \in match

\* the last call re-submitted, in the other orientation only, a match an
\* earlier call had stored
C1_Witness ==
    /\ last.op = "import_matches"
    /\ \E r \in last.rows :
         /\ \E c \in ingested : c.op = "import_matches" /\ Swapped(r) \in c.rows
         /\ \A c \in ingested : r \in c.rows => c.rows = last.rows
         /\ \E m \in match : m.segment = SegmentOf(r) /\ m.kit1 = r.kit1
                             /\ m.kit2 = r.kit2 /\ m.batch < batch

\* the six orders of the three kits of a triangle row
Permutations3(t) ==
    { <<t.kit1, t.kit2, t.kit3>>, <<t.kit1, t.kit3, t.kit2>>,
      <<t.kit2, t.kit1, t.kit3>>, <<t.kit2, t.kit3, t.kit1>>,
      <<t.kit3, t.kit1, t.kit2>>, <<t.kit3, t.kit2, t.kit1>> }

\* C2: for every triangle row all six permutations of its kits are stored
\* with the same segment and the same batch number.
C2_TrianglePermutations ==
    \A t \in triangle : \A p \in Permutations3(t) :
        [segment |-> t.segment, kit1 |-> p[1], kit2 |-> p[2], kit3 |-> p[3],
         batch |-> t.batch] \in triangle

\* triangles of two batches are stored, six rows for each segment
C2_Witness ==
    /\ \E t1, t2 \in triangle : t1.batch # t2.batch
    /\ Cardinality(triangle) = 6 * Cardinality({ t.segment : t \in triangle })

\* C3: every source row whose negative watermark is set has
\* negative <= max(match, triangle).
C3_NegativeWatermarkBound ==
    \A k \in DOMAIN source :
        source[k].negative # Null =>
            source[k].negative <= Max2(source[k].match, source[k].triangle)

\* a rebuild has set the negative watermark of a source whose match and
\* triangle watermarks differ
C3_Witness ==
    \E k \in DOMAIN source :
        /\ source[k].negative # Null
        /\ source[k].match # source[k].triangle
        /\ last.op = "build_negative" /\ last.kit = k /\ last.exit = 471

\* the condition of select_overlap on two segments
StrictlyOverlap(g1, g2) ==
    /\ g1.chromosome = g2.chromosome
    /\ g1.start < g2.end
    /\ g2.start < g1.end

\* C5: every overlap row (s, t1, t2, seg) has match rows (s, t1) and (s, t2)
\* on one chromosome whose segments strictly overlap, and seg is
\* [max of their starts, min of their ends] on that chromosome.
C5_OverlapIsIntersection ==
    \A o \in overlap :
        \E m1, m2 \in match :
            /\ m1.kit1 = o.source /\ m1.kit2 = o.target1
            /\ m2.kit1 = o.source /\ m2.kit2 = o.target2
            /\ StrictlyOverlap(m1.segment, m2.segment)
            /\ o.segment = [chromosome |-> m1.segment.chromosome,
                            start |-> Max2(m1.segment.start, m2.segment.start),
                            end |-> Min2(m1.segment.end, m2.segment.end)]

\* an overlap is stored that is shorter than one of its two matches
C5_Witness ==
    \E o \in overlap :
        \E m \in match : /\ m.kit1 = o.source /\ m.kit2 = o.target1
                         /\ m.segment.chromosome = o.segment.chromosome
                         /\ m.segment # o.segment

\* a step that is a call build_negative(s)
BuildStep(s) == last'.op = "build_negative" /\ last'.kit = s

\* C8: build_negative(s) for a kit without source row, or with match or
\* triangle watermark unset, returns false and leaves the overlap,
\* negative, segment and source tables unchanged.
C8_MissingReturnsFalse ==
    [][ \A s \in Kits :
          ( /\ BuildStep(s)
            /\ \/ s \notin DOMAIN source
               \/ source[s].match = Null
               \/ source[s].triangle = Null )
          => ( /\ last'.ret = FALSE
               /\ UNCHANGED <<overlap, negative, segment, source>> ) ]_vars

\* build_negative returned false for a source that has matches only, and
\* for a kit that is no source
C8_Witness ==
    /\ last.op = "build_negative"
    /\ last.ret = FALSE
    /\ \/ /\ last.kit \in DOMAIN source
          /\ source[last.kit].match # Null
          /\ source[last.kit].triangle = Null
       \/ /\ last.kit \notin DOMAIN source
          /\ match # {} /\ triangle # {}

\* the unit cells [i, i+1] an interval covers
Cells(g) == g.start .. (g.end - 1)

\* the negative segments attached to an overlap row
NegSegments(o) == { n.neg_segment : n \in { x \in negative : x.overlap = o } }

\* the triangle segments of (source, target1, target2) on the overlap's
\* chromosome that intersect the overlap's interval
PositiveSegments(o) ==
    { t.segment : t \in { x \in triangle :
        /\ x.kit1 = o.source /\ x.kit2 = o.target1 /\ x.kit3 = o.target2
        /\ x.segment.chromosome = o.segment.chromosome
        /\ x.segment.start <= o.segment.end
        /\ x.segment.end >= o.segment.start } }

\* C4: when build_negative(s) has returned true and no ingest has happened
\* since, the negative segments of every overlap row of s are pairwise
\* disjoint intervals, and together with the intersecting triangle segments
\* they cover exactly the overlap's interval.
C4_NegativesPartitionOverlap ==
    (last.op = "build_negative" /\ last.ret = TRUE) =>
        \A o \in { x \in overlap : x.source = last.kit } :
            /\ \A n1, n2 \in NegSegments(o) :
                  n1 # n2 => Cells(n1) \cap Cells(n2) = {}
            /\ \A n \in NegSegments(o) : n.chromosome = o.segment.chromosome
            /\ ( UNION { Cells(n) : n \in NegSegments(o) }
                 \cup UNION { Cells(g) : g \in PositiveSegments(o) } )
               \cap Cells(o.segment) = Cells(o.segment)
            /\ UNION { Cells(n) : n \in NegSegments(o) } \subseteq Cells(o.segment)

\* a source whose negative set is stale or was never built
Stale(s) ==
    /\ s \in DOMAIN source
    /\ source[s].match # Null
    /\ source[s].triangle # Null
    /\ source[s].negative < Max2(source[s].match, source[s].triangle)

\* C6: build_negative(s) on a source that has both watermarks and whose
\* negative watermark is unset or less than max(match, triangle) returns
\* true and leaves source.negative = max(source.match, source.triangle).
C6_StaleRebuildSetsWatermark ==
    [][ \A s \in Kits :
          (BuildStep(s) /\ Stale(s)) =>
              /\ last'.ret = TRUE
              /\ source'[s].negative = Max2(source[s].match, source[s].triangle) ]_vars

\* C7: a second build_negative(s) with no ingest in between takes the
\* up-to-date path, executes no statement and leaves the watermark as it is.
C7_SecondBuildNoWork ==
    (last.op = "build_negative" /\ last.ret = TRUE) =>
        /\ BuildPath(last.kit) = "uptodate"
        /\ ENABLED ( /\ build_negative(last.kit)
                     /\ last'.stmts = {}
                     /\ UNCHANGED <<tables, cd>> )

\* a step that is an ingest call
IngestStep(op) == last'.op = op /\ batch' # batch

\* the store right after import_matches(M1) on the initialized store
AfterM1 == batch = 1 /\ triangle = {} /\ last.op = "import_matches"

\* the store right after import_matches(M1), import_triangles(T1), with or
\* without a build_negative call between them
AfterM1T1(s) ==
    /\ batch = 2 /\ last.op = "import_triangles"
    /\ s \in DOMAIN source
    /\ source[s].match = 1 /\ source[s].triangle = 2

\* the steps of scenario D that both readings share: the first
\* import_matches gets batch 1, and import_triangles after it gets batch 2
\* and sets source.triangle = 2
ScenarioD_Ingest ==
    /\ (batch = 0 /\ IngestStep("import_matches")) => batch' = 1
    /\ (batch = 1 /\ triangle = {} /\ match # {} /\ IngestStep("import_triangles")) =>
          /\ batch' = 2
          /\ \A r \in last'.rows : source'[r.kit1].triangle = 2

C10_ReingestUpdatesWatermark ==
    [][ /\ ( /\ IngestStep("import_matches")
             /\ [op |-> "import_matches", rows |-> last'.rows] \in ingested )
          => /\ { MatchKey(m) : m \in match' } = { MatchKey(m) : m \in match }
             /\ batch' = batch + 1
             /\ \A r \in last'.rows : source'[r.kit1].match = batch'
        /\ ( /\ IngestStep("import_triangles")
             /\ [op |-> "import_triangles", rows |-> last'.rows] \in ingested )
          => /\ { TriangleKey(t) : t \in triangle' } = { TriangleKey(t) : t \in triangle }
             /\ batch' = batch + 1
             /\ \A r \in last'.rows : source'[r.kit1].triangle = batch' ]_vars

\* C11: every import_matches or import_triangles call increments the batch
\* counter by exactly one and every match or triangle row it inserts carries
\* the new value; no stored row carries a batch number greater than the
\* counter.
C11_BatchCounter ==
    [][ /\ last'.op \in {"import_matches", "import_triangles"} =>
              /\ batch' = batch + 1
              /\ \A m \in match' \ match : m.batch = batch'
              /\ \A t \in triangle' \ triangle : t.batch = batch'
              /\ \A m \in match \cup triangle : m.batch < batch'
        /\ \A m \in match' \cup triangle' : m.batch <= batch' ]_vars

\* two ingest calls have run and rows of both batches are stored
C11_Witness ==
    /\ batch = 2
    /\ last.op \in {"import_matches", "import_triangles"}
    /\ \E m \in match \cup triangle : m.batch = 1
    /\ \E m \in match \cup triangle : m.batch = 2

\* C12: a build_negative(s) call that fails during a rebuild leaves the
\* store exactly as it was before the call, and leaves no overlap row of s
\* in the store while the negative watermark of s is not written.
C12_FailedBuildLeavesStore ==
    [][ \A s \in Kits :
          (BuildStep(s) /\ last'.path = "raised") =>
              /\ UNCHANGED tables
              /\ (\E o \in overlap' : o.source = s) =>
                     source'[s].negative = Max2(source'[s].match, source'[s].triangle) ]_vars

\* C13: an import_matches or import_triangles call that fails at any step
\* leaves the store unchanged; the batch counter does not advance.
C13_FailedIngestLeavesStore ==
    [][ (last'.op \in {"import_matches", "import_triangles"} /\ last'.path = "raised") =>
            UNCHANGED tables ]_vars

\* C14: across ingest calls no kit is deleted, and a name, email or sex of a
\* kit that is not null is never changed by a later ingest.
C14_KitAttributesKept ==
    [][ /\ kit \subseteq kit'
        /\ DOMAIN kitattr \subseteq DOMAIN kitattr'
        /\ \A k \in DOMAIN kitattr :
              /\ kitattr[k].name # None => kitattr'[k].name = kitattr[k].name
              /\ kitattr[k].email # None => kitattr'[k].email = kitattr[k].email
              /\ kitattr[k].sex # None => kitattr'[k].sex = kitattr[k].sex ]_vars

\* the nodes of a seed tree
RECURSIVE Nodes(_)
Nodes(tree) == {tree} \cup UNION { Nodes(tree.branches[l]) : l \in DOMAIN tree.branches }

\* node d is node a or lies below it
RECURSIVE Below(_, _)
Below(d, a) == d = a \/ (d > a /\ Below(d \div 2, a))

\* the kits that have a row in graph g
GraphKits(g) == { e[1] : e \in DOMAIN g } \cup { e[2] : e \in DOMAIN g }

\* the calls of recursive_cluster made for node a
CallsAt(a) == { c \in rc.calls : c.ahnentafel = a }

\* C15: a seed declared at node n with floating=false ends with n's
\* ahnentafel and is in neither the kits nor the graph partitioned at n or
\* at a node below n; a seed declared at n with floating=true stays among
\* the kits at n, keeps its edges in the graph partitioned at n, and is not
\* among the seeds passed to get_clusters at n.
C15_FloatingSeeds ==
    rc.pc = "returned" =>
        \A n \in Nodes(rc.tree) : \A v \in n.values :
            IF ~v.floating
            THEN /\ rc.rows[v.kit].ahnentafel = n.ahnentafel
                 /\ \A c \in rc.calls :
                       Below(c.ahnentafel, n.ahnentafel) =>
                           v.kit \notin c.kits /\ v.kit \notin GraphKits(c.graph)
            ELSE \A c \in CallsAt(n.ahnentafel) :
                   /\ v.kit \in c.given => v.kit \in c.kits
                   /\ \A e \in DOMAIN rc.graph :
                         (e[1] = v.kit /\ e[1] \in c.kits /\ e[2] \in c.kits) =>
                             e \in DOMAIN c.graph
                   /\ v.kit \notin DOMAIN c.seeds

\* the floating seed 4 of the root was labelled P by the partition at the
\* root, and the P child, which pins its seed 1, partitioned the kits left
C15_Witness ==
    /\ rc.pc = "returned"
    /\ Seed(4, TRUE, FALSE) \in rc.tree.values
    /\ Seed(1, FALSE, FALSE) \in rc.tree.branches["P"].values
    /\ \E c \in CallsAt(1) : c.partition /\ c.label[4] = "P"
    /\ \E c \in CallsAt(2) : c.partition /\ 1 \in c.given /\ 1 \notin c.kits /\ 4 \in c.kits

\* C16: get_clusters with fix_seeds returns every seed with the label of the
\* seed assignment, and at every node where recursive_cluster partitions,
\* every seed declared in the subtree of child L has label L.
C16_SeedsKeepLabel ==
    /\ gc.pc = "returned" =>
          \A k \in DOMAIN gc.seeds :
              k \in DOMAIN gc.result /\ gc.result[k].label = gc.seeds[k]
    /\ rc.pc = "returned" =>
          \A n \in Nodes(rc.tree) : \A c \in CallsAt(n.ahnentafel) :
              c.partition =>
                  \A l \in DOMAIN n.branches : \A m \in Nodes(n.branches[l]) :
                      \A v \in m.values :
                          v.kit \in c.given => c.label[v.kit] = l

\* get_clusters has returned a seed labelled P whose labelled neighbours
\* weigh for M
C16_Witness ==
    /\ gc.pc = "returned"
    /\ \E k \in DOMAIN gc.seeds :
          /\ gc.seeds[k] = "P" /\ gc.result[k].label = "P"
          /\ k \in DOMAIN gc.labels
          /\ InSegSum(gc.graph, gc.labels, k)
          /\ paternal(gc.graph, gc.labels, k) < 0

\* the kits joined to a kit of S by a path of rows of nonzero weight
RECURSIVE Reach(_, _)
Reach(g, S) ==
    LET T == S \cup { e[2] : e \in { x \in DOMAIN g : x[1] \in S /\ g[x] # 0 } }
               \cup { e[1] : e \in { x \in DOMAIN g : x[2] \in S /\ g[x] # 0 } }
    IN IF T = S THEN S ELSE Reach(g, T)

\* C17: on return from get_clusters every vertex in the connected component
\* of a seed has label P or M.
C17_SeedComponentLabelled ==
    gc.pc = "returned" =>
        \A v \in Reach(gc.graph, DOMAIN gc.seeds) :
            v \in DOMAIN gc.result /\ gc.result[v].label \in {"P", "M"}

\* C18: every round of get_clusters advances the round counter, every round
\* but the last assigns one label, no round starts after 2 * |labels| + 1
\* rounds, and at most 2 * |labels| labels are assigned in all.
C18_RoundsBounded ==
    [][ gc.pc = "loop" =>
          /\ gc'.i = gc.i + 1
          /\ gc'.i <= 2 * Cardinality(DOMAIN gc.labels) + 1
          /\ gc'.updates <= 2 * Cardinality(DOMAIN gc.labels)
          /\ gc'.pc = "loop" => gc'.updates = gc.updates + 1
          /\ gc'.pc \in {"loop", "returned"}
          /\ DOMAIN gc'.labels = DOMAIN gc.labels ]_vars

\* get_clusters has returned at the cap with a vertex still available
C18_Witness ==
    /\ gc.pc = "returned"
    /\ gc.updates = 2 * Cardinality(DOMAIN gc.labels)
    /\ Available(gc.graph, gc.seeds, gc.labels) # {}

\* C19: at every node where a partition is computed, every kit left in the
\* population has a label in {P, M, ""} and a confidence that is defined
\* and lies in [0, 1].
C19_LabelAndConfidence ==
    rc.pc = "returned" =>
        \A c \in rc.calls :
            c.partition =>
                \A k \in c.kits :
                    /\ c.label[k] \in {"P", "M", ""}
                    /\ c.confidence[k].defined
                    /\ 0 <= c.confidence[k].num
                    /\ c.confidence[k].num <= c.confidence[k].den

\* the kits declared as seeds in the subtree of child l of node n
BranchSeeds(n, l) ==
    IF l \in DOMAIN n.branches
    THEN { v.kit : v \in UNION { m.values : m \in Nodes(n.branches[l]) } }
    ELSE {}

\* C20 as claimed: at a node where a partition is computed, every kit of
\* the population without an edge in the restricted graph has label "" and
\* the node's ahnentafel, a seed of a child branch included.
C20_IsolatedKits_Claimed ==
    rc.pc = "returned" =>
        \A c \in rc.calls :
            c.partition =>
                \A k \in c.given :
                    k \notin GraphKits(c.graph) =>
                        c.label[k] = "" /\ rc.rows[k].ahnentafel = c.ahnentafel

\* C20 amended: at a node where a partition is computed, a kit of the
\* population without an edge in the restricted graph has label "" and the
\* node's ahnentafel unless it is a seed of a child branch; a seed of child
\* branch L without an edge has label L and ends in the subtree of child L.
C20_IsolatedKits ==
    rc.pc = "returned" =>
        \A n \in Nodes(rc.tree) : \A c \in CallsAt(n.ahnentafel) :
            c.partition =>
                \A k \in c.given :
                    k \notin GraphKits(c.graph) =>
                        /\ \A l \in {"P", "M"} :
                              k \in BranchSeeds(n, l) =>
                                  /\ c.label[k] = l
                                  /\ Below(rc.rows[k].ahnentafel, AhnentafelOf(l, c.ahnentafel))
                        /\ k \notin BranchSeeds(n, "P") \cup BranchSeeds(n, "M") =>
                              /\ c.label[k] = ""
                              /\ rc.rows[k].ahnentafel = c.ahnentafel

\* the root has partitioned a population in which kit 4, no seed, and kit 2,
\* the seed of the M child, have no edge
C20_Witness ==
    /\ rc.pc = "returned"
    /\ rc.tree.values = {}
    /\ \E c \in CallsAt(1) :
          /\ c.partition
          /\ {2, 4} \cap GraphKits(c.graph) = {}
          /\ 2 \in BranchSeeds(rc.tree, "M")
          /\ c.label[4] = "" /\ c.label[2] = "M"

\* C30: for a seed s marked negative at node n, the negative edges of s are
\* part of the graph given to get_clusters at n and at every node below n
\* where a partition is computed, and the kits retained at a node are the
\* kits given minus its pinned seeds, whatever the negative edges are.
C30_NegativeEdgesBelow ==
    rc.pc = "returned" =>
        \A n \in Nodes(rc.tree) :
            /\ \A c \in CallsAt(n.ahnentafel) : c.kits = c.given \ nonfloat(n)
            /\ \A v \in { x \in n.values : x.negative } :
                  \A c \in { x \in rc.calls : Below(x.ahnentafel, n.ahnentafel) /\ x.partition } :
                      \A e \in DOMAIN SourceNeg[v.kit] :
                          (e[1] \in c.kits /\ e[2] \in c.kits) =>
                              /\ e \in DOMAIN c.graph
                              /\ c.graph[e] = (IF e \in DOMAIN rc.graph THEN rc.graph[e] ELSE 0)
                                              + SourceNeg[v.kit][e]

\* C29: every overlap row (s, t1, t2, seg) in the store has t1 # t2 and both
\* t1 and t2 among the kit2 of the triangle rows with kit1 = s; a match of s
\* with a kit outside that set is in no overlap row.
C29_OverlapTargetsValid ==
    \A o \in overlap :
        /\ o.target1 # o.target2
        /\ o.target1 \in valid_neg_targets(o.source)
        /\ o.target2 \in valid_neg_targets(o.source)

\* a rebuild has stored overlap rows for a source that also matches, on an
\* overlapping segment, a kit that is in none of its triangles
C29_Witness ==
    /\ last.op = "build_negative" /\ last.path = "rebuild"
    /\ \E o \in overlap : o.source = last.kit
    /\ \E m \in match :
          /\ m.kit1 = last.kit
          /\ m.kit2 \notin valid_neg_targets(last.kit)
          /\ \E o \in overlap : o.source = last.kit /\ StrictlyOverlap(m.segment, o.segment)

\* the cursor walk that keeps the cursor from moving back: c <- max(c, p_end)
RECURSIVE ReferenceWalk(_, _, _, _)
ReferenceWalk(q, chrom, c, end) ==
    IF q = << >>
    THEN IF c < end THEN { [chromosome |-> chrom, start |-> c, end |-> end] } ELSE {}
    ELSE (IF Head(q).start > c
          THEN { [chromosome |-> chrom, start |-> c, end |-> Head(q).start] }
          ELSE {})
         \cup ReferenceWalk(Tail(q), chrom, Max2(c, Head(q).end), end)

\* C26: when build_negative(s) rebuilds a source that had no negative rows,
\* the negative intervals stored for every overlap with intersecting
\* positive intervals are those of the walk that sets the cursor to
\* max(c, p_end) after each positive, so none shares more than an endpoint
\* with a positive interval.
C26_CursorWalk ==
    [][ \A s \in Kits :
          ( /\ BuildStep(s) /\ last'.path = "rebuild"
            /\ \A n \in negative : n.overlap.source # s )
          => \A o \in { x \in overlap' : x.source = s } :
                PositiveSegments(o) # {} =>
                    { n.neg_segment : n \in { x \in negative' : x.overlap = o } }
                    = ReferenceWalk(CHOOSE q \in SortedOrders(PositiveSegments(o)) : TRUE,
                                    o.segment.chromosome, o.segment.start, o.segment.end) ]_vars

\* C27: after a rebuild by build_negative(s), every overlap of s that no
\* triangle segment of its three kits intersects on its chromosome has
\* exactly one negative row, whose segment is the whole overlap interval.
C27_WholeOverlapNegative ==
    (last.op = "build_negative" /\ last.path = "rebuild" /\ last.ret = TRUE) =>
        \A o \in { x \in overlap : x.source = last.kit } :
            PositiveSegments(o) = {} => NegSegments(o) = { o.segment }

\* C28: after a rebuild by build_negative(s), the overlap rows of s are those
\* selected from the matches and triangles current at the rebuild, and the
\* negative rows of s are those computed from them; no row of an earlier
\* rebuild is left.
C28_RebuildReplaces ==
    [][ \A s \in Kits :
          (BuildStep(s) /\ last'.path = "rebuild") =>
              /\ { o \in overlap' : o.source = s } = OverlapFrame(s, select_overlap(s))
              /\ { n \in negative' : n.overlap.source = s }
                 \in { NegativeFrame(x) :
                         x \in NegTriOutcomes(
                                 select_neg_overlap(OverlapFrame(s, select_overlap(s)), s)) } ]_vars

\* the sum of the lengths of the segments of the rows
LengthSum(rows) == WeightSum([r \in rows |-> Length(r.segment)], rows)

\* the weight of the row (kit1, kit2) = e of a graph, 0 when it has none
WeightOf(g, e) == IF e \in DOMAIN g THEN g[e] ELSE 0

\* the pairs of distinct kits
KitPairs == { e \in kit \X kit : e[1] # e[2] }

\* the match rows and the triangle rows of (kit1, kit2) = e whose segment is
\* at least min_length long
LongMatches(e, min_length) ==
    { m \in match : <<m.kit1, m.kit2>> = e /\ Length(m.segment) >= min_length }

LongTriangles(e, min_length) ==
    { t \in triangle : <<t.kit1, t.kit2>> = e /\ Length(t.segment) >= min_length }

\* the internal ids of the excluded kits and of the seeds of a configuration
Excluded(parsed) == { KitLoc(x) : x \in parsed.exclude }

ConfigSeeds(parsed) ==
    { k \in kit : SeedCount(parsed.tree, kitid[k]) > 0 }

\* C21: in the base graph built by cluster_data no triangle row whose kit3 is
\* an excluded kit contributes: the weight of every edge is PAIRWISE_FACTOR
\* times its match lengths plus the lengths of its triangle rows whose kit3
\* is not excluded.
C21_ExcludedTriangles ==
    cd.pc = "returned" =>
        \A e \in KitPairs :
            WeightOf(cd.graph, e) =
                PAIRWISE_FACTOR.num * LengthSum(LongMatches(e, cd.config.min_length))
                + PAIRWISE_FACTOR.den
                  * LengthSum({ t \in LongTriangles(e, cd.config.min_length) :
                                  t.kit3 \notin Excluded(cd.config) })

\* the seeds the root's M child holds
MaternalValues(tree) ==
    IF "M" \in DOMAIN tree.branches THEN tree.branches["M"].values ELSE {}

C23_AutoX ==
    cd.pc = "returned" =>
        LET raw   == cd.config.tree
            ax    == { x \in raw.kits : x.autox }
            added == { m.kit2 : m \in { x \in match :
                                          /\ \E k \in ax : x.kit1 = KitLoc(k.id)
                                          /\ x.segment.chromosome = "X"
                                          /\ Length(x.segment) >= cd.config.min_length } }
                     \ (Excluded(cd.config) \cup ConfigSeeds(cd.config))
            listed == IF "maternal" \in DOMAIN raw.branches
                      THEN { KitLoc(k.id) : k \in raw.branches["maternal"].kits } ELSE {}
        IN /\ "M" \in DOMAIN cd.tree.branches <=>
                  ("maternal" \in DOMAIN raw.branches \/ added # {})
           /\ "M" \in DOMAIN cd.tree.branches => cd.tree.branches["M"].ahnentafel = 3
           /\ { v.kit : v \in MaternalValues(cd.tree) } = listed \cup added
           /\ \A v \in MaternalValues(cd.tree) :
                 v.kit \in added => (v.floating /\ ~v.negative)

\* the root seed, with autox, matches kits 2 and 3 on chromosome X; kit 2 is
\* a seed of the paternal node, and the M child, which the configuration
\* does not have, was created for kit 3
C23_Witness ==
    /\ cd.pc = "returned"
    /\ \E k \in cd.config.tree.kits : k.autox
    /\ "maternal" \notin DOMAIN cd.config.tree.branches
    /\ \A t \in {2, 3} : \E m \in match :
          m.kit1 = 1 /\ m.kit2 = t /\ m.segment.chromosome = "X"
    /\ 2 \in ConfigSeeds(cd.config)
    /\ MaternalValues(cd.tree) = { Seed(3, TRUE, FALSE) }

\* a step that is a call of cluster_data
ClusterStep == cd.pc = "none" /\ cd'.pc # "none"

RECURSIVE NegativeIds(_)
NegativeIds(raw) ==
    { k.id : k \in { x \in raw.kits : x.negative } }
    \cup UNION { NegativeIds(raw.branches[b]) : b \in DOMAIN raw.branches }

\* C25: cluster_data leaves the kit, match and triangle rows, the batch
\* counter and the match and triangle watermarks as they are; the overlap
\* and negative rows it adds and the negative watermarks it sets are those
\* of seeds marked negative, and the store is unchanged when no seed is.
C25_ClusterWrites ==
    [][ ClusterStep =>
          LET marked == { k \in kit : kitid[k] \in NegativeIds(cd'.config.tree) }
          IN /\ UNCHANGED <<batch, kit, kitattr, match, triangle>>
             /\ DOMAIN source' = DOMAIN source
             /\ \A k \in DOMAIN source :
                   /\ source'[k].match = source[k].match
                   /\ source'[k].triangle = source[k].triangle
                   /\ k \notin marked => source'[k] = source[k]
             /\ overlap \subseteq overlap' /\ negative \subseteq negative'
             /\ \A o \in overlap' \ overlap : o.source \in marked
             /\ \A n \in negative' \ negative : n.overlap.source \in marked
             /\ (marked = {} \/ cd'.pc = "exit") => UNCHANGED tables ]_vars

\* cluster_data has rebuilt the negative triangles of its negative seed and
\* stored negative rows and the watermark
C25_Witness ==
    /\ cd.pc = "returned" /\ cd.built # {}
    /\ last.op = "build_negative" /\ last.exit = 471
    /\ \E n \in negative : n.overlap.source \in cd.built
    /\ \A s \in cd.built : source[s].negative # Null

\* C31: at a node of ahnentafel a where recursive_cluster does not
\* partition, every kit it was given has ahnentafel a in the frame returned,
\* also a kit declared as a seed of a descendant node.
C31_UnpartitionedNode ==
    rc.pc = "returned" =>
        \A c \in rc.calls :
            ~c.partition => \A k \in c.given : rc.rows[k].ahnentafel = c.ahnentafel

\* vertex k may be relabelled: it is unlabelled or labelled against the sign
\* of its paternal value, its confidence is > 0 and it is no seed
MayRelabel(g, sd, lb, k) ==
    /\ k \notin DOMAIN sd
    /\ confidence(g, lb, k).defined /\ confidence(g, lb, k).num > 0
    /\ \/ lb[k] = NaN
       \/ lb[k] = "P" /\ paternal(g, lb, k) < 0
       \/ lb[k] = "M" /\ paternal(g, lb, k) > 0

\* C32: a round of get_clusters that assigns a label changes the label of
\* exactly one vertex, one that may be relabelled and whose confidence no
\* other such vertex exceeds, to P if its paternal value is > 0 and to M
\* otherwise; and the round in which no vertex may be relabelled returns
\* with the labels as they are.
C32_OneLabelPerRound ==
    [][ gc.pc = "loop" =>
          LET g  == gc.graph
              sd == gc.seeds
              lb == gc.labels
              changed == { k \in DOMAIN lb : gc'.labels[k] # lb[k] }
          IN /\ DOMAIN gc'.labels = DOMAIN lb
             /\ gc'.pc = "loop" =>
                   /\ Cardinality(changed) = 1
                   /\ \A k \in changed :
                         /\ MayRelabel(g, sd, lb, k)
                         /\ \A j \in DOMAIN lb :
                               MayRelabel(g, sd, lb, j) =>
                                   ~Greater(confidence(g, lb, j), confidence(g, lb, k))
                         /\ gc'.labels[k] = IF paternal(g, lb, k) > 0 THEN "P" ELSE "M"
             /\ (\A k \in DOMAIN lb : ~MayRelabel(g, sd, lb, k)) =>
                   (gc'.pc = "returned" /\ changed = {}) ]_vars

\* the first round found kits 3 and 4 unlabelled with confidence > 0, kit
\* 4's the larger, and labelled kit 4
C32_Witness ==
    /\ gc.pc = "loop" /\ gc.updates = 1
    /\ LET lb0 == InitialLabels(gc.graph, gc.seeds)
       IN /\ {3, 4} \subseteq DOMAIN lb0
          /\ MayRelabel(gc.graph, gc.seeds, lb0, 3)
          /\ MayRelabel(gc.graph, gc.seeds, lb0, 4)
          /\ Greater(confidence(gc.graph, lb0, 4), confidence(gc.graph, lb0, 3))
    /\ gc.labels[3] = NaN /\ gc.labels[4] # NaN

\* the seeds a configuration lists, and the seeds of a seed tree
RECURSIVE RawSeeds(_)
RawSeeds(raw) ==
    raw.kits \cup UNION { RawSeeds(raw.branches[b]) : b \in DOMAIN raw.branches }

RECURSIVE TreeSeeds(_)
TreeSeeds(tree) ==
    tree.values \cup UNION { TreeSeeds(tree.branches[l]) : l \in DOMAIN tree.branches }

\* kit k has been kit1 of a row passed to import_triangles
TriangleSource(k) ==
    \E i \in ingested : i.op = "import_triangles" /\ \E r \in i.rows : r.kit1 = k

\* C33: the triangle watermark of a kit that has never been kit1 of a row
\* passed to import_triangles is unset, and a seed to which the
\* configuration gives no float value is floating iff its kit has never been
\* kit1 of such a row.
C33_FloatingDefault ==
    /\ \A k \in DOMAIN source : ~TriangleSource(k) => source[k].triangle = Null
    /\ cd.pc = "returned" =>
          \A k \in { x \in RawSeeds(cd.config.tree) : x.float = None } :
              \A v \in { x \in TreeSeeds(cd.tree) : x.kit = KitLoc(k.id) } :
                  v.floating <=> ~TriangleSource(v.kit)

\* C34: the base graph is symmetric: with a row (a, b) of weight w it has the
\* row (b, a) of the same weight, and w is PAIRWISE_FACTOR times the lengths
\* of the match segments of (a, b) of length >= min_length plus the lengths
\* of its triangle segments of length >= min_length whose kit3 is not
\* excluded.
C34_BaseGraphSymmetric ==
    cd.pc = "returned" =>
        \A e \in DOMAIN cd.graph :
            /\ <<e[2], e[1]>> \in DOMAIN cd.graph
            /\ cd.graph[<<e[2], e[1]>>] = cd.graph[e]
            /\ cd.graph[e] =
                  PAIRWISE_FACTOR.num * LengthSum(LongMatches(e, cd.config.min_length))
                  + PAIRWISE_FACTOR.den
                    * LengthSum({ t \in LongTriangles(e, cd.config.min_length) :
                                    t.kit3 \notin Excluded(cd.config) })

\* the kits of the frame cluster_data returned
OutputKits == { KitLoc(x) : x \in DOMAIN cd.rows }

\* C35: with an include list the kits of the cluster output are the
\* included kits, for an included kit with a matches (triangles) threshold L
\* the kit2 of its match (triangle) rows of length >= L, and the seeds,
\* minus the excluded kits; without one they are all kits minus the
\* excluded kits.
C35_IncludeList ==
    cd.pc = "returned" =>
        LET config == cd.config
            listed == UNION {
                {KitLoc(i.id)}
                \cup { m.kit2 : m \in { x \in match :
                         /\ i.matches # NoLength
                         /\ x.kit1 = KitLoc(i.id)
                         /\ Length(x.segment) >= i.matches } }
                \cup { t.kit2 : t \in { x \in triangle :
                         /\ i.triangles # NoLength
                         /\ x.kit1 = KitLoc(i.id)
                         /\ Length(x.segment) >= i.triangles } }
                : i \in config.include }
        IN OutputKits =
              IF config.include # {}
              THEN (listed \cup ConfigSeeds(config)) \ Excluded(config)
              ELSE kit \ Excluded(config)

\* C36: the frame recursive_cluster returns has exactly one row for every
\* kit of the population it was given, and no other row.
C36_EveryKitOnce ==
    rc.pc = "returned" =>
        /\ DOMAIN rc.rows = rc.kits
        /\ DOMAIN rc.count = rc.kits
        /\ \A k \in rc.kits : rc.count[k] = 1

\* the root split its kits into a P group, an M group and an unlabelled
\* group, the call for the P group partitioned again, and a call pinned a
\* seed
C36_Witness ==
    /\ rc.pc = "returned"
    /\ \E c \in rc.calls :
          /\ c.ahnentafel = 1 /\ c.partition
          /\ \A l \in {"P", "M", ""} : \E k \in c.given : c.label[k] = l
    /\ \E c \in rc.calls : c.ahnentafel = 2 /\ c.partition
    /\ \E c \in rc.calls : c.given \ c.kits # {}
    /\ \A k \in rc.kits : rc.count[k] = 1

\* the two rows of every edge of g have the same weight
Symmetric(g) ==
    \A e \in DOMAIN g : <<e[2], e[1]>> \in DOMAIN g /\ g[<<e[2], e[1]>>] = g[e]

\* the signed agreement score of the labels lb: the sum over the edges
\* {u, v} of labelled vertices of w(u, v) if the labels agree and of
\* -w(u, v) if they do not
Score(g, lb) ==
    LET E == { e \in DOMAIN g : /\ e[1] < e[2]
                               /\ e[1] \in DOMAIN lb /\ lb[e[1]] # NaN
                               /\ e[2] \in DOMAIN lb /\ lb[e[2]] # NaN }
    IN WeightSum([e \in E |-> IF lb[e[1]] = lb[e[2]] THEN g[e] ELSE 0 - g[e]], E)

\* the vertices labelled by the loop
Labelled(sd, lb) == { k \in DOMAIN lb : lb[k] # NaN /\ k \notin DOMAIN sd }

\* C37: on a graph with symmetric weights every round of get_clusters that
\* assigns a label strictly increases the signed agreement score.
C37_ScoreIncreases ==
    [][ (gc.pc = "loop" /\ gc'.pc = "loop" /\ Symmetric(gc.graph))
        => Score(gc.graph, gc'.labels) > Score(gc.graph, gc.labels) ]_vars

\* on a symmetric graph the loop has assigned more labels than there are
\* vertices it labelled: it changed a label it had assigned, and the score
\* is above the score of the seeds alone
C37_Witness ==
    /\ gc.pc = "returned" /\ Symmetric(gc.graph)
    /\ gc.updates > Cardinality(Labelled(gc.seeds, gc.labels))
    /\ Score(gc.graph, gc.labels) > Score(gc.graph, InitialLabels(gc.graph, gc.seeds))

\* the sum of the weights of the rows of kit1 = k whose kit2 is returned
\* with label l
ReturnedWeight(k, l) ==
    LET E == { e \in DOMAIN gc.graph :
                 /\ e[1] = k /\ e[2] \in DOMAIN gc.labels
                 /\ gc.result[e[2]].label = l }
    IN WeightSum(gc.graph, E)

\* the paternal value and the confidence that the labels returned give
ReturnedPaternal(k) == ReturnedWeight(k, "P") - ReturnedWeight(k, "M")

ReturnedConfidence(k) ==
    IF \E e \in DOMAIN gc.graph :
          /\ e[1] = k /\ e[2] \in DOMAIN gc.labels
          /\ gc.result[e[2]].label \in {"P", "M"}
    THEN [defined |-> TRUE, num |-> Abs(ReturnedPaternal(k)), den |-> TotalWeight(gc.graph, k)]
    ELSE NoConfidence

\* C38: when get_clusters returns within its round cap, the confidence
\* returned for every vertex is the one its returned labels give, and every
\* vertex that is no seed and has confidence > 0 is labelled P if its
\* paternal value is positive and M if it is negative.
C38_LocallyStable ==
    (gc.pc = "returned" /\ gc.i <= max_rounds(gc.labels)) =>
        \A k \in DOMAIN gc.labels :
            /\ gc.result[k].confidence = ReturnedConfidence(k)
            /\ (k \notin DOMAIN gc.seeds /\ ReturnedConfidence(k).num > 0) =>
                  /\ ReturnedPaternal(k) > 0 => gc.result[k].label = "P"
                  /\ ReturnedPaternal(k) < 0 => gc.result[k].label = "M"

\* the loop has changed a label it had assigned and returned within the
\* round cap, with kits 3 and 4 labelled with confidence > 0
C38_Witness ==
    /\ gc.pc = "returned" /\ gc.i <= max_rounds(gc.labels)
    /\ gc.updates > Cardinality(Labelled(gc.seeds, gc.labels))
    /\ \A k \in {3, 4} :
          /\ k \in DOMAIN gc.labels /\ k \notin DOMAIN gc.seeds
          /\ gc.result[k].label \in {"P", "M"}
          /\ ReturnedConfidence(k).num > 0

\* the number the labels lv give from a: a -> 2a at a depth labelled P,
\* a -> 2a + 1 at a depth labelled M, from depth d on, up to the first depth
\* without a label
RECURSIVE LabelWalk(_, _, _)
LabelWalk(a, lv, d) ==
    IF d \notin DOMAIN lv \/ lv[d].label \notin {"P", "M"} THEN a
    ELSE LabelWalk(IF lv[d].label = "P" THEN 2 * a ELSE 2 * a + 1, lv, d + 1)

\* C39: in the frame recursive_cluster returns for the root, the ahnentafel
\* of every kit is the number its labels of depth 0, 1, ... give from 1.
C39_AhnentafelFromLabels ==
    (rc.pc = "returned" /\ rc.tree.ahnentafel = 1) =>
        \A k \in rc.kits : rc.rows[k].ahnentafel = LabelWalk(1, rc.rows[k].levels, 0)
====
